---- MODULE Spec2Model ----
(***************************************************************************)
(* promise-cpp, single-threaded build (PROMISE_MULTITHREAD == 0).          *)
(*                                                                         *)
(* The model follows src/include/promise-cpp/promise_inl.hpp.  Holders,    *)
(* tasks and handle indirections (SharedPromise) are numbered objects.     *)
(* User code (the top level, or the continuation that is executing on top  *)
(* of the engine's stack) issues newPromise / then / resolve / reject /    *)
(* drop operations; the engine runs call() until it returns or has to      *)
(* invoke a callable, in which case a frame is pushed and the callable     *)
(* later returns a value, returns a Handle or throws.                      *)
(***************************************************************************)
EXTENDS Integers, Sequences, FiniteSets, TLC

\* ------------------------------------------------------------------ bounds
\* operations and returns in one run
MaxSteps   == 6
\* the object pools, sized for a run of that length
MaxHolders == (MaxSteps + 2) \div 4
MaxTasks   == 2 * MaxHolders
\* the Promises handed to all / race / raceAndReject in one call
MaxInputs  == 2

\* the objects of a run: the combinators make holders and tasks of their own
\* (one holder for the combinator, one for each finally that runs)
HolderIds == 1..(MaxHolders + MaxInputs + 1)
TaskIds   == 1..(MaxTasks + 3 * MaxInputs)
\* newPromise makes two indirections per holder: the Promise's and the Defer's
HandleIds == 1..(2 * (MaxHolders + MaxInputs + 1))

\* ------------------------------------------------------------------ values
\* TaskState
kPending  == "Pending"
kResolved == "Resolved"
kRejected == "Rejected"

\* Payloads of the type-erased any.  The engine never looks into a payload
\* (only whether it is a Promise), so user code hands in a payload that names
\* the place it comes from: the arguments of resolve / reject on different
\* holders, the return values and the exceptions of different tasks are all
\* told apart.
EmptyAny   == 0              \* any()
BadAnyCast == 0 - 1          \* current_exception() of a bad_any_cast
ArgOf(h)   == h              \* the argument of a resolve / reject that settles holder h
RetOf(t)   == 100 + t        \* the value the callable of task t returns
ExcOf(t)   == 200 + t        \* current_exception() of what the callable of task t throws
NullPtrAny == 0 - 2          \* any(nullptr), what a library callable returns
\* an any holding a std::vector<any>: the elements are kept as the digits of a
\* number above ArrBase, so that two vectors are equal exactly when their
\* elements are
ArrBase    == 1000000
RECURSIVE ArrDigits(_)
ArrDigits(r) == IF r = <<>> THEN 0 ELSE (Head(r) + 3) + 1000 * ArrDigits(Tail(r))
ArrOf(r)   == ArrBase + ArrDigits(r)
NoArgs     == ArrOf(<<>>)    \* the argument of resolve() / reject() without values
\* lines 461 and 813-817: the vector<any> of a DoBreakTag and the any a that
\* doBreak was handed; the callable of doWhile takes it for a break when a
\* holds a vector<any>
BreakOf(a) == 0 - a
IsBreak(x) == x =< 0 - ArrBase
BreakBack(x) == 0 - x

\* callables held by a task: an empty any, a callable that accepts every
\* payload, a callable whose parameter type matches no payload (it raises
\* bad_any_cast while the argument is bound, before its body runs)
fnNone     == "none"
fnAny      == "fn"
fnMismatch == "mis"
\* the argument pairs of then(f), fail(f), then(f, g) / always(f), and of
\* then(f) and fail(f) with a callable that does not accept the payload
ThenArgs   == {<<fnAny, fnNone>>, <<fnNone, fnAny>>, <<fnAny, fnAny>>,
               <<fnMismatch, fnNone>>, <<fnNone, fnMismatch>>}

NoHolder == 0
NoTask   == 0

\* the capacity of a holder's call trace, a setting of the build
PM_MAX_LOC == 4

VARIABLES
    holders,   \* PromiseHolder objects
    tasks,     \* Task objects
    handles,   \* SharedPromise objects
    cells,     \* what the callables of all / race share: retArr, finished, winner
    stack,     \* the agent's C++ stack: callables being executed, innermost last
    aborted,   \* assert(pendingTasks.front() == task) failed: the process is gone
    steps,     \* operations and returns so far
    hist,      \* observation log (not program state)
    mt         \* the multi-threaded build: agents, mutexes and what they guard

vars == <<holders, tasks, handles, cells, stack, aborted, steps, hist, mt>>

\* the single-threaded build has no agents and no mutexes
NoThreads == <<>>


\* the whole program state as one record, so that the engine's functions can be
\* written as operators from state to state
Cur == [holders |-> holders, tasks |-> tasks, handles |-> handles,
        cells |-> cells, stack |-> stack, aborted |-> aborted, hist |-> hist]

\* no callable that call() invoked for holder h is executing
Quiet(S, h) ==
    /\ S.holders[h].status = "live"
    /\ \A i \in 1..Len(S.stack) : S.stack[i].holder # h

\* the log's view of the holders between operations: the state a holder
\* showed when it was last quiet, and whether it has since been seen to change
\* from one settled state to the other (flips) or back to Pending (unset)
Observe(S) ==
    [S.hist EXCEPT
        !.cur   = <<NoHolder, kPending>>,
        !.last  = NoTask,
        !.src   = NoTask,
        !.obs   = [h \in DOMAIN @ |->
                     IF Quiet(S, h) THEN S.holders[h].state_ ELSE @[h]],
        !.flips = [h \in DOMAIN @ |->
                     \/ @[h]
                     \/ /\ Quiet(S, h)
                        /\ S.hist.obs[h] \in {kResolved, kRejected}
                        /\ S.holders[h].state_ \in {kResolved, kRejected}
                        /\ S.holders[h].state_ # S.hist.obs[h]],
        !.unset = [h \in DOMAIN @ |->
                     \/ @[h]
                     \/ /\ Quiet(S, h)
                        /\ S.hist.obs[h] \in {kResolved, kRejected}
                        /\ S.holders[h].state_ = kPending]]

\* ------------------------------------------------------------- allocation
Made(f, ids)  == {i \in ids : f[i].status # "unborn"}
NextHolder(S) == Cardinality(Made(S.holders, HolderIds)) + 1
NextTask(S)   == Cardinality(Made(S.tasks, TaskIds)) + 1
NextHandle(S) == Cardinality(Made(S.handles, HandleIds)) + 1

\* PromiseHolder::PromiseHolder
\* callStack_ is the number of CallRecords in the list; what the records say
\* is not modelled
NewHolder ==
    [status |-> "live", state_ |-> kPending, value_ |-> EmptyAny,
     pendingTasks_ |-> <<>>, owners_ |-> {}, callStack_ |-> 0]

UnbornHolder ==
    [status |-> "unborn", state_ |-> kPending, value_ |-> EmptyAny,
     pendingTasks_ |-> <<>>, owners_ |-> {}, callStack_ |-> 0]

\* what the lambda of a library callable has captured: a Defer, a Promise
\* (both by their SharedPromise), the callable handed to finally, an index
NoCapture == [defer |-> 0, ret |-> 0, cb |-> fnNone, index |-> 0, cell |-> 0]

UnbornTask ==
    [status |-> "unborn", state_ |-> kPending, promiseHolder_ |-> NoHolder,
     onResolved_ |-> fnNone, onRejected_ |-> fnNone, captured |-> NoCapture]

\* the shared_ptr objects that all() and race() make for their callables, kept
\* under the id of the combinator's holder: the inputs, retArr, finished, winner
NoCell == [kind |-> "none", list |-> <<>>, retArr |-> <<>>, finished |-> 0,
           winner |-> 0 - 1, defer |-> 0]

\* the holders and the tasks that the library has made for itself: the
\* Promises of finally, all and race with their first tasks, and the tasks of
\* the callables that capture something
LibHolders(S) == {h \in HolderIds : S.cells[h].kind # "none"}
LibTasks(S) ==
    {t \in TaskIds : S.tasks[t].status = "made" /\ S.tasks[t].captured # NoCapture}
UserHolders(S) == NextHolder(S) - 1 - Cardinality(LibHolders(S))
UserTasks(S) ==
    NextTask(S) - 1 - Cardinality(LibTasks(S)) - Cardinality(LibHolders(S))

UnbornHandle ==
    [status |-> "unborn", promiseHolder_ |-> NoHolder, task_ |-> NoTask]

\* a shared_ptr<SharedPromise> is alive while user code holds a Promise or a
\* Defer that refers to it
\* ("live"), or while a callable or a frame of the library holds one ("held")
\* ("loop": a Defer that user code holds inside a DeferLoop)
LiveHandle(S, s) == S.handles[s].status \in {"live", "held", "loop"}
\* the SharedPromise objects user code can reach
UserHandle(S, s) == S.handles[s].status = "live"
LiveHolder(S, h) == h # NoHolder /\ S.holders[h].status = "live"

\* ------------------------------------------------------------ engine stack
\* A frame is a callable that has been invoked and has not returned yet:
\*   kind "call": task->onResolved_/onRejected_ invoked by call(); holder is
\*                call()'s local promiseHolder, keep the holder that a
\*                temporary of the enclosing operation keeps alive
\*   kind "sink": the uncaught-exception handler invoked by ~PromiseHolder;
\*                temp is the state of the rejected Promise it was handed
\*   kind "lib":  a callable of the library (the lambdas of then(Defer),
\*                finally, all, race) that is in the middle of its body: at
\*                names the place, temp and value are the argument's state
\*                and payload, inner and defer the Promise and the Defer of a
\*                newPromise it has made, index a loop counter
CallFrame(t, h, k) ==
    [kind |-> "call", task |-> t, holder |-> h, keep |-> k,
     temp |-> kPending, value |-> EmptyAny, was |-> <<kPending, EmptyAny>>,
     at |-> "body", inner |-> 0, defer |-> 0, index |-> 0]

SinkFrame(v, k) ==
    [kind |-> "sink", task |-> NoTask, holder |-> NoHolder, keep |-> k,
     temp |-> kRejected, value |-> v, was |-> <<kPending, EmptyAny>>,
     at |-> "body", inner |-> 0, defer |-> 0, index |-> 0]

LibFrame(t, h, k, at) ==
    [kind |-> "lib", task |-> t, holder |-> h, keep |-> k,
     temp |-> kPending, value |-> EmptyAny, was |-> <<kPending, EmptyAny>>,
     at |-> at, inner |-> 0, defer |-> 0, index |-> 0]

\* kind "run": the run function that user code handed to doWhile, invoked with
\* the DeferLoop defer; index counts the invocations
RunFrame(d, k) ==
    [kind |-> "run", task |-> NoTask, holder |-> NoHolder, keep |-> NoHolder,
     temp |-> kPending, value |-> EmptyAny, was |-> <<kPending, EmptyAny>>,
     at |-> "body", inner |-> 0, defer |-> d, index |-> k]

Push(S, f) == [S EXCEPT !.stack = Append(@, f)]
Pop(S)     == [S EXCEPT !.stack = SubSeq(@, 1, Len(@) - 1)]
Top(S)     == S.stack[Len(S.stack)]

\* static thread_local s_inUncaughtExceptionHandler
s_inUncaughtExceptionHandler(S) ==
    \E i \in 1..Len(S.stack) : S.stack[i].kind = "sink"

\* use_count() > 0 of a holder: a live SharedPromise points at it, or a call()
\* on the stack holds it in its local promiseHolder / in
\* threadLocalPromiseHolders(), or a temporary Defer of an enclosing
\* Promise::resolve / Promise::reject does
Referenced(S, h) ==
    \/ \E s \in HandleIds : LiveHandle(S, s) /\ S.handles[s].promiseHolder_ = h
    \/ \E i \in 1..Len(S.stack) : S.stack[i].holder = h \/ S.stack[i].keep = h

\* ------------------------------------------------------------- destruction
\* PromiseHolder::~PromiseHolder.  A holder destroyed in state kRejected hands
\* its value to the uncaught-exception handler unless the thread is inside
\* the handler already.  The handler is user code: it runs as a frame.
\* The members (pendingTasks_, owners_) are destroyed with the holder.
Destroyed(S, h, fire) ==
    [S EXCEPT !.holders[h].status = "dead",
              !.holders[h].pendingTasks_ = <<>>,
              !.holders[h].owners_ = {},
              !.hist.dtor[h] = [state  |-> S.holders[h].state_,
                                nested |-> s_inUncaughtExceptionHandler(S),
                                fired  |-> fire,
                                arg    |-> IF fire THEN S.holders[h].value_
                                                   ELSE EmptyAny]]

\* a destructor without the thread_local flag
DestructorUnguarded(S, h, k) ==
    LET fire == S.holders[h].state_ = kRejected
    IN  IF fire THEN Push(Destroyed(S, h, fire), SinkFrame(S.holders[h].value_, k))
                ELSE Destroyed(S, h, fire)

Destructor(S, h, k) ==
    LET fire == S.holders[h].state_ = kRejected /\ ~s_inUncaughtExceptionHandler(S)
    IN  IF fire THEN Push(Destroyed(S, h, fire), SinkFrame(S.holders[h].value_, k))
                ELSE Destroyed(S, h, fire)

\* shared_ptr<PromiseHolder> release: the holders in cands lose a reference, in
\* that order; one that is no longer referenced is destroyed.  When a
\* destructor invokes the handler, the references that are released after the
\* handler returns wait in the handler's frame.
RECURSIVE Release(_, _)
Release(S, cands) ==
    IF cands = <<>> THEN S
    ELSE LET h    == Head(cands)
             rest == Tail(cands)
             k    == IF rest = <<>> THEN NoHolder ELSE Head(rest)
         IN  IF ~LiveHolder(S, h) \/ Referenced(S, h) THEN Release(S, rest)
             ELSE LET S1 == Destructor(S, h, k)
                  IN  IF Len(S1.stack) > Len(S.stack) THEN S1
                      ELSE Release(S1, rest)

\* --------------------------------------------------------------------- join
\* healthyCheck(line, promiseHolder), lines 50-87: TRUE when it does not throw
healthyCheck(S, h) ==
    /\ \A o \in S.holders[h].owners_ :
          LiveHandle(S, o) => S.handles[o].promiseHolder_ = h
    /\ \A i \in 1..Len(S.holders[h].pendingTasks_) :
          LET t == S.holders[h].pendingTasks_[i]
          IN  S.tasks[t].state_ = kPending /\ S.tasks[t].promiseHolder_ = h

\* lines 139-140 and 177-178: the healthyCheck calls at the entry of join, on
\* the state S, and at its exit, on the state J; the log keeps whether all of
\* them returned
joinChecked(S, J, left, right) ==
    [J EXCEPT !.hist.healthy =
        /\ @
        /\ healthyCheck(S, left) /\ healthyCheck(S, right)
        /\ healthyCheck(J, left) /\ healthyCheck(J, right)]

\* a join that splices right's tasks, in reverse, in front of left's
joinInFront(S, left, right) ==
    LET moved  == S.holders[right].pendingTasks_
        owners == {o \in S.holders[right].owners_ : LiveHandle(S, o)}
    IN  [S EXCEPT
          !.tasks = [t \in TaskIds |->
                        IF \E i \in 1..Len(moved) : moved[i] = t
                        THEN [@[t] EXCEPT !.promiseHolder_ = left] ELSE @[t]],
          !.holders[left].pendingTasks_ =
                        [i \in 1..Len(moved) |-> moved[Len(moved) + 1 - i]] \o @,
          !.holders[right].pendingTasks_ = <<>>,
          !.holders[left].callStack_ = S.holders[right].callStack_ + @,
          !.holders[right].callStack_ = 0,
          !.holders[right].owners_ = {},
          !.holders[right].state_ = kResolved,
          !.handles = [o \in HandleIds |->
                        IF o \in owners
                        THEN [@[o] EXCEPT !.promiseHolder_ = left] ELSE @[o]],
          !.holders[left].owners_ = @ \cup owners,
          !.hist.chain = [x \in HolderIds |->
                        IF @[x] = @[right] \/ x = left THEN left ELSE @[x]],
          !.hist.before = [t \in TaskIds |->
                        IF \E i \in 1..Len(moved) : moved[i] = t
                        THEN @[t] \cup {S.holders[left].pendingTasks_[i] :
                                          i \in 1..Len(S.holders[left].pendingTasks_)}
                        ELSE @[t]],
          !.hist.ahead = [t \in TaskIds |->
                        @[t] \cup {moved[j] : j \in {k \in 1..Len(moved) :
                                      \E i \in 1..Len(moved) : moved[i] = t /\ k < i}}]]

\* a join that forgets to point the moved tasks at left
joinLeavesTasks(S, left, right) ==
    LET moved  == S.holders[right].pendingTasks_
        owners == {o \in S.holders[right].owners_ : LiveHandle(S, o)}
    IN  [S EXCEPT
          !.holders[left].pendingTasks_ = @ \o moved,
          !.holders[right].pendingTasks_ = <<>>,
          !.holders[right].owners_ = {},
          !.holders[right].state_ = kResolved,
          !.handles = [o \in HandleIds |->
                        IF o \in owners
                        THEN [@[o] EXCEPT !.promiseHolder_ = left] ELSE @[o]],
          !.holders[left].owners_ = @ \cup owners]

\* join(left, right), lines 141-170: what moves from right to left
joinMoves(S, left, right) ==
    LET moved  == S.holders[right].pendingTasks_
        owners == {o \in S.holders[right].owners_ : LiveHandle(S, o)}
    IN  [S EXCEPT
          !.tasks = [t \in TaskIds |->
                        IF \E i \in 1..Len(moved) : moved[i] = t
                        THEN [@[t] EXCEPT !.promiseHolder_ = left] ELSE @[t]],
          !.holders[left].pendingTasks_ = @ \o moved,
          !.holders[right].pendingTasks_ = <<>>,
          !.holders[left].callStack_ = S.holders[right].callStack_ + @,
          !.holders[right].callStack_ = 0,
          !.holders[right].owners_ = {},
          !.holders[right].state_ = kResolved,
          !.handles = [o \in HandleIds |->
                        IF o \in owners
                        THEN [@[o] EXCEPT !.promiseHolder_ = left] ELSE @[o]],
          !.holders[left].owners_ = @ \cup owners,
          !.hist.chain = [x \in HolderIds |->
                        IF @[x] = @[right] \/ x = left THEN left ELSE @[x]],
          !.hist.before = [t \in TaskIds |->
                        IF \E i \in 1..Len(moved) : moved[i] = t
                        THEN @[t] \cup {S.holders[left].pendingTasks_[i] :
                                          i \in 1..Len(S.holders[left].pendingTasks_)}
                        ELSE @[t]],
          !.hist.ahead = [t \in TaskIds |->
                        @[t] \cup {moved[j] : j \in {k \in 1..Len(moved) :
                                      \E i \in 1..Len(moved) : moved[i] = t /\ k < i}}]]

\* join(left, right), lines 138-179
join(S, left, right) == joinChecked(S, joinMoves(S, left, right), left, right)

\* join(left, right) with left = right = h.  Line 147 splices pendingTasks_
\* into itself and line 148 callStack_ into itself, which std::list::splice
\* leaves undefined; ub is what the build makes of it when one of the lists
\* has elements: the lists are as before, the lists have lost their elements,
\* or the process is gone.  Lines 150-170 take the owners out and put the
\* living ones back, and line 155 sets the state.
SpliceOutcomes == {"kept", "emptied", "crash"}

selfJoin(S, h, ub) ==
    LET S1 == [S EXCEPT
                 !.hist.healthy = @ /\ healthyCheck(S, h),
                 !.aborted = @ \/ ub = "crash",
                 !.holders[h].pendingTasks_ = IF ub = "emptied" THEN <<>> ELSE @,
                 !.holders[h].callStack_ = IF ub = "emptied" THEN 0 ELSE @,
                 !.holders[h].owners_ = {o \in @ : LiveHandle(S, o)},
                 !.holders[h].state_ = kResolved]
    IN  [S1 EXCEPT !.hist.selfJoin =
            IF \/ S1.aborted
               \/ S1.holders[h].state_ # S.holders[h].state_
               \/ S1.holders[h].value_ # S.holders[h].value_
               \/ S1.holders[h].pendingTasks_ # S.holders[h].pendingTasks_
               \/ S1.holders[h].owners_ # S.holders[h].owners_
            THEN "changed"
            ELSE IF @ = "changed" THEN @ ELSE "same"]

\* --------------------------------------------------------------------- call
\* what the log keeps of a holder's settlement
Settlement(S, h) == <<S.holders[h].state_, S.holders[h].value_>>

\* line 240: assert(pendingTasks.front() == task)
FrontIsTask(S, t, h) ==
    /\ S.holders[h].pendingTasks_ # <<>>
    /\ Head(S.holders[h].pendingTasks_) = t

\* lines 242-253: the task leaves the front of the queue and takes the
\* holder's state (single-threaded build: pop_front without a wait)
PopFront(S, t, h) ==
    [S EXCEPT !.holders[h].pendingTasks_ = Tail(@),
              !.holders[h].callStack_ =
                  IF @ + 2 > PM_MAX_LOC THEN PM_MAX_LOC ELSE @ + 2,
              !.tasks[t].state_ = S.holders[h].state_,
              !.hist.order = Append(@, t),
              !.hist.ranOn[t] = h,
              !.hist.seen[t] = Settlement(S, h),
              !.hist.prev[t] = S.hist.last,
              !.hist.last = t,
              !.hist.trig[t] = S.hist.cur,
              !.hist.via[t] = S.hist.src,
              !.hist.hseen[t] =
                  IF S.hist.waits[t] # 0 /\ LiveHandle(S, S.hist.waits[t])
                  THEN Settlement(S, S.handles[S.hist.waits[t]].promiseHolder_)
                  ELSE Settlement(S, h)]

\* lines 380-381, with the log of the settlement the task leaves behind
ClearTask(S, t, h, how) ==
    [S EXCEPT !.tasks[t].onResolved_ = fnNone,
              !.tasks[t].onRejected_ = fnNone,
              !.hist.how[t] = how,
              !.hist.after[t] = Settlement(S, h),
              !.hist.caught[h] =
                  IF how \in {"value", "lib"} /\ S.hist.seen[t][1] = kRejected THEN TRUE
                  ELSE IF S.holders[h].state_ = kRejected /\ how # "pass" THEN FALSE
                  ELSE @]

\* a pass-through that marks the settlement as handled
PassThroughHandled(S, h) ==
    [S EXCEPT !.holders[h].state_ = kResolved]

\* lines 258-261 / 310-315: the callable for the holder's state is empty, the
\* branch is empty too
PassThrough(S, h) == S

\* a catch that sets the state and forgets the payload
CatchOuterKeepValue(S, h, payload) ==
    [S EXCEPT !.holders[h].state_ = kRejected]

\* a catch of bad_any_cast around onRejected that stores the exception
CatchRejectedCastStore(S, h) ==
    [S EXCEPT !.holders[h].value_ = BadAnyCast,
              !.holders[h].state_ = kRejected]

\* a catch of bad_any_cast around onRejected that takes the rejection as handled
CatchRejectedCastResolved(S, h) ==
    [S EXCEPT !.holders[h].state_ = kResolved]

\* a return that stores the value and leaves the transient state in place
AdoptValueOnly(S, h, v) ==
    [S EXCEPT !.holders[h].value_ = v]

\* lines 370-378: an exception that leaves the try block
CatchOuter(S, h, payload) ==
    [S EXCEPT !.holders[h].value_ = payload,
              !.holders[h].state_ = kRejected]

\* lines 363-366: bad_any_cast out of the onRejected callable
CatchRejectedCast(S, h) ==
    [S EXCEPT !.holders[h].state_ = kRejected]

\* lines 263 / 318
SetPendingForCall(S, h) ==
    [S EXCEPT !.holders[h].state_ = kPending]

\* lines 296-299 / 351-354: the callable returned something that is no Promise
AdoptValue(S, h, v) ==
    [S EXCEPT !.holders[h].value_ = v,
              !.holders[h].state_ = kResolved]

RECURSIVE call(_, _, _)
RECURSIVE SecondStage(_, _, _)

\* lines 384-399: the next task of the (possibly new) holder, or return; on
\* return call()'s local promiseHolder and then the enclosing operation's
\* temporary are released
SecondStage(S, h, keep) ==
    IF Len(S.holders[h].pendingTasks_) = 0
    THEN Release(S, <<h, keep>>)
    ELSE call(S, Head(S.holders[h].pendingTasks_), keep)

\* call(loc, task), lines 207-400, up to the point where it returns or
\* invokes a callable whose body runs (the frame pushed then is resumed by
\* the Return actions)
call(S, task, keep) ==
    LET h == S.tasks[task].promiseHolder_ IN
    IF ~LiveHolder(S, h) THEN Release(S, <<keep>>)                  \* line 211
    ELSE IF S.tasks[task].state_ # kPending                         \* line 221
            \/ S.holders[h].state_ = kPending                       \* line 224
         THEN Release(S, <<h, keep>>)
    ELSE IF ~FrontIsTask(S, task, h)                                \* line 240
         THEN [S EXCEPT !.aborted = TRUE]
    ELSE
        LET st == S.holders[h].state_
            fn == IF st = kResolved THEN S.tasks[task].onResolved_
                                    ELSE S.tasks[task].onRejected_
            S1 == PopFront(S, task, h)
        IN  CASE fn = fnNone ->
                   SecondStage(ClearTask(PassThrough(S1, h), task, h, "pass"), h, keep)
              [] fn = fnMismatch /\ st = kResolved ->
                   LET S2 == CatchOuter(SetPendingForCall(S1, h), h, BadAnyCast)
                   IN  SecondStage(ClearTask(S2, task, h, "mismatch"), h, keep)
              [] fn = fnMismatch /\ st = kRejected ->
                   LET S2 == CatchRejectedCast(SetPendingForCall(S1, h), h)
                   IN  SecondStage(ClearTask(S2, task, h, "mismatch"), h, keep)
              [] fn = fnAny ->
                   Push([SetPendingForCall(S1, h) EXCEPT !.hist.how[task] = "running"],
                        CallFrame(task, h, keep))
              [] OTHER ->
                   \* a callable of the library: its body starts with the
                   \* holder's state and value as argument
                   Push([SetPendingForCall(S1, h) EXCEPT !.hist.how[task] = "running"],
                        [LibFrame(task, h, keep, fn) EXCEPT
                            !.temp = st, !.value = S.holders[h].value_])

\* ------------------------------------------------------- public operations
\* a then that puts the new task in front of the waiting ones
thenCapturedInFront(S, s, onResolved, onRejected, captured) ==
    LET h == S.handles[s].promiseHolder_
        t == NextTask(S)
        S1 == [S EXCEPT !.tasks[t] = [status |-> "made", state_ |-> kPending,
                                      promiseHolder_ |-> h,
                                      onResolved_ |-> onResolved,
                                      onRejected_ |-> onRejected,
                                      captured |-> captured],
                        !.holders[h].pendingTasks_ = <<t>> \o @,
                        !.hist.origin[t] = h]
    IN  call(S1, t, NoHolder)

\* Promise::then(loc, onResolved, onRejected), lines 660-679; captured is what
\* the lambdas handed in have captured
thenCaptured(S, s, onResolved, onRejected, captured) ==
    LET h == S.handles[s].promiseHolder_
        t == NextTask(S)
        S1 == [S EXCEPT !.tasks[t] = [status |-> "made", state_ |-> kPending,
                                      promiseHolder_ |-> h,
                                      onResolved_ |-> onResolved,
                                      onRejected_ |-> onRejected,
                                      captured |-> captured],
                        !.holders[h].pendingTasks_ = Append(@, t),
                        !.hist.origin[t] = h,
                        !.hist.nested = IF S.holders[h].state_ = kPending /\ ~Quiet(S, h)
                                        THEN @ \cup {t} ELSE @]
    IN  call(S1, t, NoHolder)

\* then with callables of user code
then(S, s, onResolved, onRejected) ==
    thenCaptured(S, s, onResolved, onRejected, NoCapture)

\* Defer::Defer, lines 402-411: a new SharedPromise on the task's holder
DeferCtor(S, t) ==
    [S EXCEPT !.handles[NextHandle(S)] =
                 [status |-> "live", promiseHolder_ |-> S.tasks[t].promiseHolder_,
                  task_ |-> t]]

\* log: a reject of holder h opens a rejection that no handler has consumed,
\* on h and on the holder that h's chain has been joined into
Uncaught(S, h, st) ==
    [x \in HolderIds |->
        IF st = kRejected /\ (x = h \/ x = S.hist.chain[h])
        THEN FALSE ELSE S.hist.caught[x]]

\* a resolve / reject without the test of the task's state
DeferSettleUnguarded(S, s, st, arg) ==
    LET t == S.handles[s].task_
        h == S.handles[s].promiseHolder_
    IN  call([S EXCEPT !.holders[h].state_ = st,
                       !.holders[h].value_ = arg,
                       !.hist.cur = <<h, st>>,
                       !.hist.caught = Uncaught(S, h, st)], t, NoHolder)

\* Defer::resolve(loc, arg) / Defer::reject(loc, arg), lines 414-438; st is the
\* state to set
DeferSettleWith(S, s, st, arg) ==
    LET t == S.handles[s].task_
        h == S.handles[s].promiseHolder_
    IN  IF S.tasks[t].state_ # kPending THEN S
        ELSE call([S EXCEPT !.holders[h].state_ = st,
                            !.holders[h].value_ = arg,
                            !.hist.cur = <<h, st>>,
                            !.hist.caught = Uncaught(S, h, st)], t, NoHolder)

\* user code settles a Defer: the argument names the holder it settles
DeferSettle(S, s, st) ==
    DeferSettleWith(S, s, st, ArgOf(S.handles[s].promiseHolder_))

\* what run(defer) of newPromise does with its Defer: keep it for later
\* (a timer, a callback), or settle it at once
RunKinds == {"later", kResolved, kRejected}

\* newPromise(loc, run), lines 768-787
newPromise(S, run) ==
    LET h  == NextHolder(S)
        s  == NextHandle(S)
        S1 == [S EXCEPT !.holders[h] = [NewHolder EXCEPT !.owners_ = {s}],
                        !.handles[s] = [status |-> "live", promiseHolder_ |-> h,
                                        task_ |-> NoTask]]
        S2 == then(S1, s, fnNone, fnNone)
        S3 == DeferCtor(S2, Head(S2.holders[h].pendingTasks_))
    IN  IF run = "later" THEN S3 ELSE DeferSettle(S3, NextHandle(S2), run)

\* what run(defer) does before it throws: nothing with its Defer, or a
\* resolve / reject of it
ThrowKinds == {"first", kResolved, kRejected}

\* a newPromise whose catch block is empty
newPromiseSwallows(S, pre) ==
    LET h  == NextHolder(S)
        s  == NextHandle(S)
        S1 == [S EXCEPT !.holders[h] = [NewHolder EXCEPT !.owners_ = {s}],
                        !.handles[s] = [status |-> "live", promiseHolder_ |-> h,
                                        task_ |-> NoTask]]
        S2 == then(S1, s, fnNone, fnNone)
        t  == Head(S2.holders[h].pendingTasks_)
        S3 == [DeferCtor(S2, t) EXCEPT !.hist.threw[t] = pre]
    IN  IF pre = "first" THEN S3 ELSE DeferSettle(S3, NextHandle(S2), pre)

\* newPromise(loc, run) with a run that throws, lines 768-787: the catch block
\* rejects the Defer with current_exception()
newPromiseThrows(S, pre) ==
    LET h  == NextHolder(S)
        s  == NextHandle(S)
        S1 == [S EXCEPT !.holders[h] = [NewHolder EXCEPT !.owners_ = {s}],
                        !.handles[s] = [status |-> "live", promiseHolder_ |-> h,
                                        task_ |-> NoTask]]
        S2 == then(S1, s, fnNone, fnNone)
        t  == Head(S2.holders[h].pendingTasks_)
        d  == NextHandle(S2)
        S3 == [DeferCtor(S2, t) EXCEPT !.hist.threw[t] = pre]
        S4 == IF pre = "first" THEN S3 ELSE DeferSettle(S3, d, pre)
    IN  DeferSettleWith(S4, d, kRejected, ExcOf(t))

\* Promise::resolve / Promise::reject, lines 710-750: a temporary Defer on the
\* head task; the temporary's SharedPromise points at the task's holder and
\* keeps it alive until the operation returns
PromiseSettleWith(S, s, st, arg) ==
    LET h == S.handles[s].promiseHolder_
        q == S.holders[h].pendingTasks_
    IN  IF Len(q) = 0 THEN S
        ELSE LET t  == Head(q)
                 th == S.tasks[t].promiseHolder_
             IN  IF S.tasks[t].state_ # kPending THEN S
                 ELSE call([S EXCEPT !.holders[th].state_ = st,
                                     !.holders[th].value_ = arg,
                                     !.hist.cur = <<th, st>>,
                                     !.hist.caught = Uncaught(S, th, st)], t, th)

\* user code settles a Promise: the argument names the holder it settles
PromiseSettle(S, s, st) ==
    LET q == S.holders[S.handles[s].promiseHolder_].pendingTasks_
    IN  IF Len(q) = 0 THEN S
        ELSE PromiseSettleWith(S, s, st, ArgOf(S.tasks[Head(q)].promiseHolder_))

\* Promise::then(loc, Promise), lines 632-654
thenPromise(S, s, other) ==
    LET left  == S.handles[s].promiseHolder_
        right == S.handles[other].promiseHolder_
        S1    == join(S, left, right)
        q     == S1.holders[left].pendingTasks_
    IN  IF Len(q) > 0 THEN call(S1, Head(q), NoHolder) ELSE S1

\* Promise::then(loc, Promise), lines 632-654, with a Promise of the same holder
thenSelf(S, s, ub) ==
    LET h  == S.handles[s].promiseHolder_
        S1 == selfJoin(S, h, ub)
        q  == S1.holders[h].pendingTasks_
    IN  IF ~S1.aborted /\ Len(q) > 0 THEN call(S1, Head(q), NoHolder) ELSE S1

\* lines 300-305 / 355-360: the callable returned a Promise of the holder it
\* was called for
returnSelf(S, ub) ==
    LET f  == Top(S)
        S1 == selfJoin(Pop(S), f.holder, ub)
    IN  IF S1.aborted THEN S1
        ELSE SecondStage(ClearTask(S1, f.task, f.holder, "promise"),
                         f.holder, f.keep)

\* user code lets go of the Promise and Defer objects it holds on holder h:
\* their SharedPromise objects go away and release the holder
drop(S, h) ==
    Release([S EXCEPT !.handles = [s \in HandleIds |->
                IF UserHandle(S, s) /\ S.handles[s].promiseHolder_ = h
                THEN [@[s] EXCEPT !.status = "dead"] ELSE @[s]]],
            <<h>>)

\* ----------------------------------------------- a callable's body returns
\* lines 293-299 / 348-354, then 380-399
returnValue(S) ==
    LET f  == Top(S)
        S1 == AdoptValue(Pop(S), f.holder, RetOf(f.task))
    IN  SecondStage(ClearTask(S1, f.task, f.holder, "value"), f.holder, f.keep)

\* lines 300-305 / 355-360: the callable returned the Promise s
returnPromise(S, s) ==
    LET f    == Top(S)
        left == S.handles[s].promiseHolder_
        moved == S.holders[f.holder].pendingTasks_
        S1   == join(Pop(S), left, f.holder)
        leftq == S.holders[left].pendingTasks_
        \* log: the tasks that now wait for the returned Promise, and whether
        \* the first of them is the first task with a callable it will reach
        pend == S.holders[left].state_ = kPending
        lone == /\ \A i \in 1..Len(S.stack) : S.stack[i].holder # left
                /\ \A i \in 1..Len(leftq) :
                      /\ S.tasks[leftq[i]].onResolved_ = fnNone
                      /\ S.tasks[leftq[i]].onRejected_ = fnNone
        S2   == [S1 EXCEPT
                   !.hist.waits = [t \in TaskIds |->
                      IF pend /\ \E i \in 1..Len(moved) : moved[i] = t
                      THEN s ELSE @[t]],
                   !.hist.wleft = [t \in TaskIds |->
                      IF pend /\ \E i \in 1..Len(moved) : moved[i] = t
                      THEN left ELSE @[t]],
                   !.hist.lone = [t \in TaskIds |->
                      IF pend /\ lone /\ moved # <<>> /\ t = Head(moved)
                      THEN TRUE ELSE @[t]]]
        S3   == ClearTask(S2, f.task, left, "promise")
        \* promiseHolder = ...: the frame lets go of the shell; left stays
        \* held by the frame's local until call() returns
        S4   == Release(S3, <<f.holder>>)
    IN  SecondStage(S4, left, f.keep)

\* lines 375-378: the body threw
returnThrow(S) ==
    LET f  == Top(S)
        S1 == CatchOuter(Pop(S), f.holder, ExcOf(f.task))
    IN  SecondStage(ClearTask(S1, f.task, f.holder, "throw"), f.holder, f.keep)

\* lines 566-571 and 523-525: the handler returns; the rejected Promise it
\* was handed is dropped while the flag is still set, then the flag is reset
\* and the references that waited are released
sinkReturn(S) ==
    LET f == Top(S)
    IN  Release([Pop(S) EXCEPT !.hist.guarded =
                    IF f.temp = kRejected THEN @ + 1 ELSE @], <<f.keep>>)

\* the handler consumes the rejection it was handed, as the default handler
\* does with d.fail(...), lines 541-555
sinkConsume(S) ==
    [S EXCEPT !.stack[Len(S.stack)].temp = kResolved]

\* ------------------------------------------------------- library callables
\* A library callable that call() invoked is a "lib" frame; when it has to
\* call user code, or calls into the engine, the frame stays on the stack
\* with the place to go on at.

\* Promise::finally(loc, onFinally), lines 689-707; ret is the Promise that the
\* callable of then(Defer) has captured
finally(S, s, cb, ret) ==
    thenCaptured(S, s, "finResolve", "finReject",
                 [NoCapture EXCEPT !.cb = cb, !.ret = ret])

\* lines 757-759: the Promise that newPromise makes for the lambda of finally;
\* the library holds it until the lambda returns it
finallyPromise(S) ==
    then([S EXCEPT !.holders[NextHolder(S)] =
                       [NewHolder EXCEPT !.owners_ = {NextHandle(S)}],
                   !.cells[NextHolder(S)] = [NoCell EXCEPT !.kind = "inner"],
                   !.handles[NextHandle(S)] =
                       [status |-> "held", promiseHolder_ |-> NextHolder(S),
                        task_ |-> NoTask]],
         NextHandle(S), fnNone, fnNone)

\* lines 760-761: the Defer of that Promise, on its one task; the lambda is
\* about to call onFinally
finallyDefer(S, f) ==
    [DeferCtor(S, NextTask(S) - 1) EXCEPT
        !.handles[NextHandle(S)].status = "held",
        !.hist.cbs[f.task] = @ + 1]

\* lines 692-696 / 700-704: the run function calls onFinally
finallyRun(S, f) ==
    LET cap == S.tasks[f.task].captured
        d2  == NextHandle(S) - 1
        g   == [f EXCEPT !.inner = d2 - 1, !.defer = d2]
    IN  CASE cap.cb = fnAny ->
               Push(S, [g EXCEPT !.kind = "fin", !.at = "body"])
          [] cap.cb = fnMismatch ->
               Push(S, [g EXCEPT !.at = "fin.settle"])
          [] cap.cb = "rejectLosers" ->
               Push(S, [g EXCEPT !.at = "losers", !.index = 1])
          [] cap.cb = "rejectRet" ->
               PromiseSettleWith(Push(S, [g EXCEPT !.at = "fin.settle"]),
                                 cap.ret, kRejected, NoArgs)

\* lines 690-691 / 698-699: the lambda of finally makes a new Promise, whose
\* run function calls onFinally: user code (a frame of kind "fin"), a callable
\* that does not accept the argument (bad_any_cast, caught at line 695 / 703),
\* or the library's own callable of then(Defer) (lines 607-609)
finallyEnter(S, f) ==
    finallyRun(finallyDefer(finallyPromise(S), f), f)

\* a finally that resolves its Promise whatever the upstream state was
finallySettleResolves(S, f) ==
    DeferSettleWith(Push([S EXCEPT !.hist.fin[f.task] =
                             IF S.tasks[f.task].captured.cb = fnMismatch
                             THEN "mismatch" ELSE "returned"],
                         [f EXCEPT !.kind = "lib", !.at = "fin.return"]),
                    f.defer, kResolved, f.value)

\* lines 696 / 704: onFinally is done; defer.resolve(arg) in the lambda of
\* onResolved, defer.reject(arg) in the lambda of onRejected
finallySettle(S, f) ==
    DeferSettleWith(Push([S EXCEPT !.hist.fin[f.task] =
                             IF S.tasks[f.task].captured.cb = fnMismatch
                             THEN "mismatch" ELSE "returned"],
                         [f EXCEPT !.kind = "lib", !.at = "fin.return"]),
                    f.defer, f.temp, f.value)

\* onFinally threw something that is no bad_any_cast: the catch block of
\* newPromise rejects the Defer, line 783
finallyThrow(S, f) ==
    DeferSettleWith(Push([S EXCEPT !.hist.fin[f.task] = "threw"],
                         [f EXCEPT !.kind = "lib", !.at = "fin.return"]),
                    f.defer, kRejected, ExcOf(f.task))

\* a then(Defer) that resolves the Defer whatever state it was started with
forwardSettleResolves(S, f) ==
    LET d == S.tasks[f.task].captured.defer
    IN  DeferSettleWith(Push([S EXCEPT !.hist.src = f.task,
                                       !.hist.fwd[f.task] =
                                           IF S.tasks[S.handles[d].task_].state_ = kPending
                                           THEN "sent" ELSE "late"],
                             [f EXCEPT !.at = "return.null"]),
                        d, kResolved, f.value)

\* lines 600 / 603: defer.resolve(loc, arg) in the lambda of onResolved,
\* defer.reject(loc, arg) in the lambda of onRejected
forwardSettle(S, f) ==
    LET d == S.tasks[f.task].captured.defer
    IN  DeferSettleWith(Push([S EXCEPT !.hist.src = f.task,
                                       !.hist.fwd[f.task] =
                                           IF S.tasks[S.handles[d].task_].state_ = kPending
                                           THEN "sent" ELSE "late"],
                             [f EXCEPT !.at = "return.null"]),
                        d, f.temp, f.value)

\* then(Defer): the callable that forwards the settlement returns, lines 601 / 604
forwardReturn(S, f) ==
    LET S1 == AdoptValue(S, f.holder, NullPtrAny)
    IN  SecondStage(ClearTask(S1, f.task, f.holder, "lib"), f.holder, f.keep)

\* ------------------------------------------------------------ all and race
\* all() and race(): newPromise has made the Promise and the Defer; the Defer
\* is captured by the callables, the shared_ptr objects are made (lines
\* 835-838 / 898), and the run function starts its loop over the inputs.
\* Inputs are counted from 1; winner is 0 - 1 until a callable of race runs.
combinatorLoop(S, kind, list) ==
    LET d == NextHandle(S) - 1
        h == S.handles[d].promiseHolder_
    IN  Push([S EXCEPT !.handles[d].status = "held",
                       !.cells[h] = [kind |-> kind, list |-> list,
                                     retArr |-> [i \in 1..Len(list) |-> EmptyAny],
                                     finished |-> 0, winner |-> 0 - 1, defer |-> d]],
             [LibFrame(NoTask, NoHolder, NoHolder, "loop") EXCEPT
                 !.inner = h, !.index = 1])

\* resolve(loc) of the header: a Promise resolved at once without values
resolveNow(S) ==
    LET d == NextHandle(S) - 1
        h == S.handles[d].promiseHolder_
    IN  DeferSettleWith([S EXCEPT !.handles[d].status = "dead",
                                  !.cells[h] = [NoCell EXCEPT !.kind = "all",
                                                              !.defer = d]],
                        d, kResolved, NoArgs)

\* all(loc, promise_list), lines 830-865
all(S, list) ==
    IF list = <<>> THEN resolveNow(newPromise(S, "later"))
    ELSE combinatorLoop(newPromise(S, "later"), "all", list)

\* lines 843-857 / 870-881: one turn of the loop of the run function, which
\* attaches the two callables to the next input; after the last input
\* newPromise returns
combinatorNext(S, f) ==
    LET c == S.cells[f.inner]
    IN  IF f.index > Len(c.list) THEN S
        ELSE thenCaptured(Push(S, [f EXCEPT !.index = @ + 1]), c.list[f.index],
                          c.kind \o "Resolve", c.kind \o "Reject",
                          [NoCapture EXCEPT !.defer = c.defer, !.index = f.index,
                                            !.cell = f.inner])

\* defer.resolve / defer.reject in a callable of all or race; the frame keeps
\* what the Defer's holder showed if the Defer's task was no longer Pending
combinatorSettle(S, f, st, arg) ==
    LET d    == S.tasks[f.task].captured.defer
        dh   == S.handles[d].promiseHolder_
        late == S.tasks[S.handles[d].task_].state_ # kPending
    IN  DeferSettleWith(Push([S EXCEPT !.hist.src = f.task,
                                       !.hist.late[f.task] =
                                           IF late THEN "kept" ELSE "first"],
                             [f EXCEPT !.at = "return",
                                       !.was = <<S.holders[dh].state_,
                                                 S.holders[dh].value_>>]),
                        d, st, arg)

\* lines 846-847: (*retArr)[index] = arg; ++(*finished)
allStore(S, f) ==
    LET cap == S.tasks[f.task].captured
    IN  [S EXCEPT !.cells[cap.cell].retArr[cap.index] = f.value,
                  !.cells[cap.cell].finished = @ + 1]

\* an all that resolves as soon as one input has resolved
allDoneAtFirst(S, f) ==
    LET c == S.cells[S.tasks[f.task].captured.cell]
    IN  IF c.finished >= 1
        THEN combinatorSettle(S, f, kResolved, ArrOf(c.retArr))
        ELSE Push(S, [f EXCEPT !.at = "return"])

\* lines 847-849: if (++(*finished) >= *size) defer.resolve(loc, *retArr)
allDone(S, f) ==
    LET c == S.cells[S.tasks[f.task].captured.cell]
    IN  IF c.finished >= Len(c.list)
        THEN combinatorSettle(S, f, kResolved, ArrOf(c.retArr))
        ELSE Push(S, [f EXCEPT !.at = "return"])

\* lines 845-850: the callable of all for a resolved input
allResolve(S, f) == allDone(allStore(S, f), f)

\* lines 851-853: the callable of all for a rejected input
allReject(S, f) == combinatorSettle(S, f, kRejected, f.value)

\* lines 871 / 876: *winner = index
raceStore(S, f) ==
    LET cap == S.tasks[f.task].captured
    IN  [S EXCEPT !.cells[cap.cell].winner = cap.index]

\* lines 870-874: the callable of race for a resolved input
raceResolve(S, f) == combinatorSettle(raceStore(S, f), f, kResolved, f.value)

\* lines 875-879: the callable of race for a rejected input
raceReject(S, f) == combinatorSettle(raceStore(S, f), f, kRejected, f.value)

\* race(loc, promise_list), lines 885-888
race(S, list) == combinatorLoop(newPromise(S, "later"), "race", list)

\* raceAndReject(loc, promise_list), lines 890-901: race, then finally on the
\* Promise that race returned
raceAndReject(S, list) ==
    combinatorLoop(Push(newPromise(S, "later"),
                        [LibFrame(NoTask, NoHolder, NoHolder, "rar.finally") EXCEPT
                            !.inner = NextHandle(S), !.index = NextHolder(S)]),
                   "race", list)

\* Promise::reject through handle s finds a task to reject, lines 739-749
Rejects(S, s) ==
    LET q == S.holders[S.handles[s].promiseHolder_].pendingTasks_
    IN  Len(q) > 0 /\ S.tasks[Head(q)].state_ = kPending

\* the inputs whose first waiting task is still Pending
StillPending(S, list) ==
    {i \in 1..Len(list) : Rejects(S, list[i])}

\* lines 892-900: the callable that raceAndReject hands to finally; one turn
\* of its loop, which reads *winner anew
rejectLosers(S, f) ==
    LET cell == S.tasks[f.task].captured.cell
        c    == S.cells[cell]
    IN  IF f.index > Len(c.list)
        THEN finallySettle([S EXCEPT !.hist.loop[cell].done = TRUE,
                                     !.hist.loop[cell].left = StillPending(S, c.list)],
                           f)
        ELSE IF f.index = c.winner
        THEN Push(S, [f EXCEPT !.index = @ + 1])
        ELSE PromiseSettleWith(
                 Push([S EXCEPT !.hist.loop[cell].rejected =
                          IF Rejects(S, c.list[f.index]) THEN @ \cup {f.index} ELSE @],
                      [f EXCEPT !.index = @ + 1]),
                 c.list[f.index], kRejected, NoArgs)

\* The callable returns.  A callable of all returns nothing: call() stores
\* the empty any that the invocation yields; a callable of race returns its
\* argument (lines 873 / 878); either way the holder of the input is Resolved
\* (lines 296-299 / 351-354).  The log notes whether a settle that came late
\* changed what the Defer's holder showed.
combinatorReturn(S, f) ==
    LET cap == S.tasks[f.task].captured
        dh  == S.handles[cap.defer].promiseHolder_
        S1  == [S EXCEPT !.hist.late[f.task] =
                   IF @ = "kept" /\ Settlement(S, dh) # f.was
                   THEN "moved" ELSE @]
        S2  == AdoptValue(S1, f.holder,
                          IF S.cells[cap.cell].kind = "race" THEN f.value ELSE EmptyAny)
    IN  SecondStage(ClearTask(S2, f.task, f.holder, "lib"), f.holder, f.keep)

\* doWhile(loc, run), lines 800-804: newPromise makes the Promise of this
\* round and its run function hands run a DeferLoop on the Defer; k counts the
\* rounds.  The Promise of the first round is the one user code gets, the
\* later ones are what the callable of the round before returns.
loopRun(S, k) ==
    LET d == NextHandle(S) - 1
        h == S.handles[d].promiseHolder_
    IN  Push(Push([S EXCEPT !.handles[d].status = "loop",
                            !.handles[d - 1].status =
                                IF k = 1 THEN "live" ELSE "held",
                            !.cells[h] = [NoCell EXCEPT !.kind = "doWhile"],
                            !.hist.runs = Append(@, d)],
                  [LibFrame(NoTask, NoHolder, NoHolder, "doWhile.then")
                      EXCEPT !.inner = d - 1, !.defer = d, !.index = k]),
             RunFrame(d, k))

doWhile(S) == loopRun(newPromise(S, "later"), 1)

\* lines 805-807: the callable for a resolved round returns doWhile(loc, run)
loopNext(S, f) ==
    loopRun(newPromise(Push(S, [f EXCEPT !.at = "doWhile.return",
                                         !.inner = NextHandle(S)]), "later"),
            S.tasks[f.task].captured.index + 1)

\* a callable for a rejected round that takes nothing for a break
loopEndRejects(S, f) ==
    LET d2 == NextHandle(S) - 1
    IN  DeferSettleWith(Push(S, [f EXCEPT !.at = "fin.return",
                                          !.inner = d2 - 1, !.defer = d2]),
                        d2, kRejected, f.value)

\* lines 811-823: the run function of the Promise that the callable for a
\* rejected round makes: resolve with args.back() for a break, otherwise
\* reject with the argument
loopEndSettle(S, f) ==
    LET d2 == NextHandle(S) - 1
    IN  DeferSettleWith(Push(S, [f EXCEPT !.at = "fin.return",
                                          !.inner = d2 - 1, !.defer = d2]),
                        d2,
                        IF IsBreak(f.value) THEN kResolved ELSE kRejected,
                        IF IsBreak(f.value) THEN BreakBack(f.value) ELSE f.value)

\* lines 809-825: the callable for a rejected round returns a new Promise
loopEnd(S, f) == loopEndSettle(finallyDefer(finallyPromise(S), f), f)

\* DeferLoop::doContinue, doBreak and reject, lines 456-466, on the Defer d of
\* a DeferLoop; the log keeps the first call that found the round unsettled
loopSettle(S, d, op, st, arg) ==
    DeferSettleWith([S EXCEPT !.hist.did[d] =
                        IF @ = "none" /\ S.tasks[S.handles[d].task_].state_ = kPending
                        THEN op ELSE @,
                              !.hist.called[d] = @ \cup {op}],
                    d, st, arg)

\* lines 456-458
doContinue(S, d) == loopSettle(S, d, "continue", kResolved, NoArgs)

\* doBreak(values...) of promise.hpp: the any handed to doBreak(loc, arg)
\* holds the vector of the values user code breaks with; the values name the
\* holder of the round
BreakValues(h) == ArrOf(<<ArgOf(h)>>)

\* lines 460-462
doBreak(S, d) ==
    loopSettle(S, d, "break", kRejected,
               BreakOf(BreakValues(S.handles[d].promiseHolder_)))

\* lines 464-466
loopReject(S, d) ==
    loopSettle(S, d, "reject", kRejected, ArgOf(S.handles[d].promiseHolder_))

\* run returns: the run function of newPromise is done, line 779
runReturn(S) == Pop(S)

\* run throws: the catch block of newPromise rejects the Defer, lines 781-784
runThrows(S) ==
    loopSettle(Pop(S), Top(S).defer, "threw", kRejected,
               ExcOf(S.handles[Top(S).defer].task_))

\* what a lib frame on top of the stack does next
Continue(S, f) ==
    CASE f.at \in {"finResolve", "finReject"} -> finallyEnter(S, f)
      [] f.at = "fin.settle" -> finallySettle(S, f)
      [] f.at = "fin.return" ->
           \* newPromise returns and its Defer goes away; the lambda returns
           \* the Promise to call(), which joins (lines 300-305 / 355-360);
           \* the returned Promise is a temporary
           returnPromise(Push([S EXCEPT !.handles[f.defer].status = "dead",
                                        !.handles[f.inner].status = "dead",
                                        !.hist.last = f.task],
                              [f EXCEPT !.kind = "call"]), f.inner)
      [] f.at \in {"fwdResolve", "fwdReject"} -> forwardSettle(S, f)
      [] f.at = "return.null" -> forwardReturn(S, f)
      [] f.at = "loop" -> combinatorNext(S, f)
      [] f.at = "allResolve" -> allResolve(S, f)
      [] f.at = "allReject" -> allReject(S, f)
      [] f.at = "raceResolve" -> raceResolve(S, f)
      [] f.at = "raceReject" -> raceReject(S, f)
      [] f.at = "losers" -> rejectLosers(S, f)
      [] f.at = "rar.finally" ->
           thenCaptured(S, f.inner, "finResolve", "finReject",
                        [NoCapture EXCEPT !.cb = "rejectLosers", !.cell = f.index])
      [] f.at = "return" -> combinatorReturn(S, f)
      [] f.at = "doWhile.then" ->
           \* lines 804-826: .then(loc, ...) on the Promise of the round
           thenCaptured(S, f.inner, "loopNext", "loopEnd",
                        [NoCapture EXCEPT !.defer = f.defer, !.index = f.index])
      [] f.at = "loopNext" -> loopNext(S, f)
      [] f.at = "loopEnd" -> loopEnd(S, f)
      [] f.at = "doWhile.return" ->
           \* the Promise of the next round is returned to call(), which
           \* joins (lines 300-305); the returned Promise is a temporary
           returnPromise(Push([S EXCEPT !.handles[f.inner].status = "dead",
                                        !.hist.last = f.task],
                              [f EXCEPT !.kind = "call"]), f.inner)
      [] f.at = "thenDefer.finally" ->
           \* lines 607-609: promise.finally(...) on the Defer's Promise
           finally(S, f.defer, "rejectRet", f.inner)

\* an operation has returned to user code when the stack is empty or a user
\* callable is on top; library code on top of the stack goes on at once
RECURSIVE Resume(_)
Resume(S) ==
    IF S.aborted \/ S.stack = <<>> \/ Top(S).kind # "lib" THEN S
    ELSE Resume(Continue(Pop(S), Top(S)))

\* Promise::then(loc, Defer), lines 595-612
thenDefer(S, s, d) ==
    thenCaptured(Push(S, [LibFrame(NoTask, NoHolder, NoHolder, "thenDefer.finally")
                             EXCEPT !.inner = s, !.defer = d]),
                 s, "fwdResolve", "fwdReject", [NoCapture EXCEPT !.defer = d])

\* the callable handed to finally returns
finallyReturn(S) == finallySettle(Pop(S), Top(S))

\* the callable handed to finally throws
finallyThrows(S) == finallyThrow(Pop(S), Top(S))

\* the state R is the next state
Becomes(R) ==
    /\ holders' = R.holders
    /\ tasks'   = R.tasks
    /\ handles' = R.handles
    /\ cells'   = R.cells
    /\ stack'   = R.stack
    /\ aborted' = R.aborted
    /\ steps'   = steps + 1
    /\ hist'    = Observe(R)
    /\ mt'      = mt

\* the state an operation leaves behind
Install(S) == Becomes(Resume(S))

\* ------------------------------------------------------------------- Init
\* the state after construction: no object exists yet
Fresh ==
    [holders |-> [h \in HolderIds |-> UnbornHolder],
     tasks   |-> [t \in TaskIds |-> UnbornTask],
     handles |-> [s \in HandleIds |-> UnbornHandle],
     cells   |-> [h \in HolderIds |-> NoCell],
     stack   |-> <<>>,
     aborted |-> FALSE,
     hist    |-> [order    |-> <<>>,
                  origin   |-> [t \in TaskIds |-> NoHolder],
                  ranOn    |-> [t \in TaskIds |-> NoHolder],
                  seen     |-> [t \in TaskIds |-> <<kPending, EmptyAny>>],
                  after    |-> [t \in TaskIds |-> <<kPending, EmptyAny>>],
                  how      |-> [t \in TaskIds |-> "none"],
                  waits    |-> [t \in TaskIds |-> 0],
                  wleft    |-> [t \in TaskIds |-> NoHolder],
                  cur      |-> <<NoHolder, kPending>>,
                  last     |-> NoTask,
                  prev     |-> [t \in TaskIds |-> NoTask],
                  trig     |-> [t \in TaskIds |-> <<NoHolder, kPending>>],
                  lone     |-> [t \in TaskIds |-> FALSE],
                  threw    |-> [t \in TaskIds |-> "no"],
                  cbs      |-> [t \in TaskIds |-> 0],
                  fin      |-> [t \in TaskIds |-> "none"],
                  fwd      |-> [t \in TaskIds |-> "none"],
                  late     |-> [t \in TaskIds |-> "none"],
                  loop     |-> [h \in HolderIds |->
                                  [done |-> FALSE, rejected |-> {}, left |-> {}]],
                  runs     |-> <<>>,
                  did      |-> [s \in HandleIds |-> "none"],
                  called   |-> [s \in HandleIds |-> {}],
                  nested   |-> {},
                  healthy  |-> TRUE,
                  selfJoin |-> "none",
                  via      |-> [t \in TaskIds |-> NoTask],
                  src      |-> NoTask,
                  again    |-> [promise |-> "none", defer |-> "none"],
                  hseen    |-> [t \in TaskIds |-> <<kPending, EmptyAny>>],
                  chain    |-> [h \in HolderIds |-> h],
                  before   |-> [t \in TaskIds |-> {}],
                  ahead    |-> [t \in TaskIds |-> {}],
                  obs      |-> [h \in HolderIds |-> kPending],
                  flips    |-> [h \in HolderIds |-> FALSE],
                  unset    |-> [h \in HolderIds |-> FALSE],
                  caught   |-> [h \in HolderIds |-> FALSE],
                  dtor     |-> [h \in HolderIds |->
                                  [state |-> kPending, nested |-> FALSE,
                                   fired |-> FALSE, arg |-> EmptyAny]],
                  guarded  |-> 0]]

StartWith(S, M) ==
    /\ holders = S.holders
    /\ tasks   = S.tasks
    /\ handles = S.handles
    /\ cells   = S.cells
    /\ stack   = S.stack
    /\ aborted = S.aborted
    /\ steps   = 0
    /\ hist    = S.hist
    /\ mt      = M

Start(S) == StartWith(S, NoThreads)

Init == Start(Fresh)

\* a program that has already made two promises whose run functions keep
\* their Defer, p1 and p2, and has called p2.then(p1): p1 is SharedPromise 1
\* and its Defer is 2, p2 is 3 and its Defer is 4
Joined == thenPromise(newPromise(newPromise(Fresh, "later"), "later"), 3, 1)

InitJoined == Start(Joined)

\* ---------------------------------------------------------------- actions
\* Every operation is issued by the code that is executing: the top level
\* when the stack is empty, otherwise the callable on top of the stack.
Alive      == ~aborted /\ steps < MaxSteps
Running    == Alive /\ stack # <<>> /\ Top(Cur).kind = "call"
InSinkCall == Alive /\ stack # <<>> /\ Top(Cur).kind = "sink"

NewPromise ==
    \E run \in RunKinds :
        /\ Alive
        /\ UserHolders(Cur) < MaxHolders
        /\ UserTasks(Cur) < MaxTasks
        /\ Install(newPromise(Cur, run))

Then ==
    \E s \in HandleIds, fns \in ThenArgs :
        /\ Alive
        /\ UserHandle(Cur, s)
        /\ UserTasks(Cur) < MaxTasks
        /\ Install(then(Cur, s, fns[1], fns[2]))

DeferResolve ==
    \E s \in HandleIds :
        /\ Alive
        /\ UserHandle(Cur, s) /\ handles[s].task_ # NoTask
        /\ Install(DeferSettle(Cur, s, kResolved))

DeferReject ==
    \E s \in HandleIds :
        /\ Alive
        /\ UserHandle(Cur, s) /\ handles[s].task_ # NoTask
        /\ Install(DeferSettle(Cur, s, kRejected))

PromiseResolve ==
    \E s \in HandleIds :
        /\ Alive
        /\ UserHandle(Cur, s)
        /\ Install(PromiseSettle(Cur, s, kResolved))

PromiseReject ==
    \E s \in HandleIds :
        /\ Alive
        /\ UserHandle(Cur, s)
        /\ Install(PromiseSettle(Cur, s, kRejected))

\* p.then(q) on two different holders
ThenPromise ==
    \E s \in HandleIds, other \in HandleIds :
        /\ Alive
        /\ UserHandle(Cur, s) /\ UserHandle(Cur, other)
        /\ handles[s].promiseHolder_ # handles[other].promiseHolder_
        /\ Install(thenPromise(Cur, s, other))

Drop ==
    \E h \in HolderIds :
        /\ Alive
        /\ \E s \in HandleIds : UserHandle(Cur, s) /\ handles[s].promiseHolder_ = h
        /\ Install(drop(Cur, h))

ReturnValue ==
    /\ Running
    /\ Install(returnValue(Cur))

\* the callable returns a Promise of another holder
ReturnPromise ==
    /\ Running
    /\ \E s \in HandleIds :
        /\ UserHandle(Cur, s)
        /\ handles[s].promiseHolder_ # Top(Cur).holder
        /\ Install(returnPromise(Cur, s))

ReturnThrow ==
    /\ Running
    /\ Install(returnThrow(Cur))

SinkConsume ==
    /\ InSinkCall
    /\ Top(Cur).temp = kRejected
    /\ Install(sinkConsume(Cur))

SinkReturn ==
    /\ InSinkCall
    /\ Install(sinkReturn(Cur))

Next ==
    \/ NewPromise
    \/ Then
    \/ DeferResolve
    \/ DeferReject
    \/ PromiseResolve
    \/ PromiseReject
    \/ ThenPromise
    \/ Drop
    \/ ReturnValue
    \/ ReturnPromise
    \/ ReturnThrow
    \/ SinkConsume
    \/ SinkReturn

Spec == Init /\ [][Next]_vars

\* the operations that need no new holder
NextJoined ==
    \/ Then
    \/ DeferResolve
    \/ DeferReject
    \/ PromiseResolve
    \/ PromiseReject
    \/ ThenPromise
    \/ Drop
    \/ ReturnValue
    \/ ReturnPromise
    \/ ReturnThrow
    \/ SinkConsume
    \/ SinkReturn

SpecJoined == InitJoined /\ [][NextJoined]_vars

\* ------------------------------------------- runs that throw, repeated settles
\* operations and returns in one run of SpecSettle
MaxSettleSteps == 4

NewPromiseThrows ==
    \E pre \in ThrowKinds :
        /\ Alive
        /\ UserHolders(Cur) < MaxHolders
        /\ UserTasks(Cur) < MaxTasks
        /\ Install(newPromiseThrows(Cur, pre))

\* log: whether an operation left the holders, the tasks and the stack as they
\* were and started no task
Logged(which, S, R) ==
    LET same == /\ R.holders = S.holders
                /\ R.tasks = S.tasks
                /\ R.stack = S.stack
                /\ R.hist.order = S.hist.order
        mark == IF same THEN "same" ELSE "changed"
    IN  IF which = "promise" THEN [R EXCEPT !.hist.again.promise = mark]
                             ELSE [R EXCEPT !.hist.again.defer = mark]

\* p.resolve() / p.reject() on a Promise whose holder is Resolved or Rejected
PromiseSettleAgain ==
    \E s \in HandleIds, st \in {kResolved, kRejected} :
        /\ Alive
        /\ UserHandle(Cur, s)
        /\ holders[handles[s].promiseHolder_].state_ \in {kResolved, kRejected}
        /\ Install(Logged("promise", Cur, PromiseSettle(Cur, s, st)))

\* d.resolve() / d.reject() on a Defer whose task has been started
DeferSettleAgain ==
    \E s \in HandleIds, st \in {kResolved, kRejected} :
        /\ Alive
        /\ UserHandle(Cur, s) /\ handles[s].task_ # NoTask
        /\ tasks[handles[s].task_].state_ # kPending
        /\ Install(Logged("defer", Cur, DeferSettle(Cur, s, st)))

\* a run of SpecSettle has operations left
Short == steps < MaxSettleSteps

NextSettle ==
    \/ Short /\ NewPromiseThrows
    \/ Short /\ PromiseSettleAgain
    \/ Short /\ DeferSettleAgain
    \/ Short /\ NewPromise
    \/ Short /\ Then
    \/ Short /\ DeferResolve
    \/ Short /\ DeferReject
    \/ Short /\ PromiseResolve
    \/ Short /\ PromiseReject
    \/ Short /\ ThenPromise
    \/ Short /\ Drop
    \/ Short /\ ReturnValue
    \/ Short /\ ReturnPromise
    \/ Short /\ ReturnThrow
    \/ Short /\ SinkConsume
    \/ Short /\ SinkReturn

SpecSettle == Init /\ [][NextSettle]_vars

\* the same after p2.then(p1), without the operations that need a new holder
NextJoinedSettle ==
    \/ Short /\ PromiseSettleAgain
    \/ Short /\ DeferSettleAgain
    \/ Short /\ Then
    \/ Short /\ DeferResolve
    \/ Short /\ DeferReject
    \/ Short /\ PromiseResolve
    \/ Short /\ PromiseReject
    \/ Short /\ ThenPromise
    \/ Short /\ Drop
    \/ Short /\ ReturnValue
    \/ Short /\ ReturnPromise
    \/ Short /\ ReturnThrow
    \/ Short /\ SinkConsume
    \/ Short /\ SinkReturn

SpecJoinedSettle == InitJoined /\ [][NextJoinedSettle]_vars

\* ------------------------------------------------------------------ finally
\* operations and returns in one run of SpecFinally
MaxFinallySteps == 5

\* the callables handed to finally: one that accepts the argument, one that
\* does not
FinallyArgs == {fnAny, fnMismatch}

InFinally == Alive /\ stack # <<>> /\ Top(Cur).kind = "fin"

\* every finally that is started makes a holder, a task and two SharedPromise
\* objects, which NewPromise and Then leave room for
FinallyTasks(S) ==
    {t \in TaskIds : S.tasks[t].status = "made" /\ S.tasks[t].captured.cb # fnNone}

Finally ==
    \E s \in HandleIds, cb \in FinallyArgs :
        /\ Alive
        /\ UserHandle(Cur, s)
        /\ UserTasks(Cur) < MaxTasks
        /\ Cardinality(FinallyTasks(Cur)) < MaxInputs
        /\ Install(finally(Cur, s, cb, 0))

FinallyReturn ==
    /\ InFinally
    /\ Install(finallyReturn(Cur))

FinallyThrows ==
    /\ InFinally
    /\ Install(finallyThrows(Cur))

ShortFinally == steps < MaxFinallySteps

NextFinally ==
    \/ ShortFinally /\ NewPromise
    \/ ShortFinally /\ Finally
    \/ ShortFinally /\ FinallyReturn
    \/ ShortFinally /\ FinallyThrows
    \/ ShortFinally /\ Then
    \/ ShortFinally /\ DeferResolve
    \/ ShortFinally /\ DeferReject
    \/ ShortFinally /\ PromiseResolve
    \/ ShortFinally /\ PromiseReject
    \/ ShortFinally /\ ReturnValue
    \/ ShortFinally /\ ReturnThrow

SpecFinally == Init /\ [][NextFinally]_vars

\* -------------------------------------------------------------- then(Defer)
\* operations and returns in one run of SpecForward
MaxForwardSteps == 5

\* the tasks that then(Defer) has made to forward a settlement
ForwardTasks(S) ==
    {t \in TaskIds : /\ S.tasks[t].status = "made"
                     /\ S.tasks[t].captured.defer # 0
                     /\ S.tasks[t].captured.cell = 0
                     /\ S.tasks[t].captured.index = 0}

\* p.then(d): d is a Defer that user code holds
ThenDefer ==
    \E s \in HandleIds, d \in HandleIds :
        /\ Alive
        /\ UserHandle(Cur, s) /\ UserHandle(Cur, d)
        /\ handles[d].task_ # NoTask
        /\ UserTasks(Cur) < MaxTasks
        /\ Cardinality(ForwardTasks(Cur)) < MaxInputs
        /\ Install(thenDefer(Cur, s, d))

ShortForward == steps < MaxForwardSteps

NextForward ==
    \/ ShortForward /\ NewPromise
    \/ ShortForward /\ ThenDefer
    \/ ShortForward /\ Then
    \/ ShortForward /\ DeferResolve
    \/ ShortForward /\ DeferReject
    \/ ShortForward /\ PromiseResolve
    \/ ShortForward /\ PromiseReject
    \/ ShortForward /\ ReturnValue
    \/ ShortForward /\ ReturnThrow

SpecForward == Init /\ [][NextForward]_vars

\* ---------------------------------------------------------------------- all
\* operations and returns in one run of SpecAll
MaxAllSteps == 5

\* the lists of Promises that user code hands to all and race
InputLists == UNION {[1..n -> HandleIds] : n \in 0..MaxInputs}

\* user code holds every Promise of the list
Inputs(list) ==
    \A i \in 1..Len(list) : UserHandle(Cur, list[i]) /\ handles[list[i]].task_ = NoTask

\* a program calls one combinator
NoCombinator == \A h \in HolderIds : cells[h].kind \in {"none", "inner"}

All ==
    \E list \in InputLists :
        /\ Alive
        /\ Inputs(list)
        /\ NoCombinator
        /\ Install(all(Cur, list))

ShortAll == steps < MaxAllSteps

NextAll ==
    \/ ShortAll /\ NewPromise
    \/ ShortAll /\ All
    \/ ShortAll /\ Then
    \/ ShortAll /\ DeferResolve
    \/ ShortAll /\ DeferReject
    \/ ShortAll /\ PromiseResolve
    \/ ShortAll /\ PromiseReject
    \/ ShortAll /\ ReturnValue
    \/ ShortAll /\ ReturnThrow

SpecAll == Init /\ [][NextAll]_vars

\* --------------------------------------------------------------------- race
\* operations and returns in one run of SpecRace
MaxRaceSteps == 5

Race ==
    \E list \in InputLists :
        /\ Alive
        /\ Inputs(list)
        /\ NoCombinator
        /\ Install(race(Cur, list))

RaceAndReject ==
    \E list \in InputLists :
        /\ Alive
        /\ Inputs(list)
        /\ NoCombinator
        /\ Install(raceAndReject(Cur, list))

ShortRace == steps < MaxRaceSteps

NextRace ==
    \/ ShortRace /\ NewPromise
    \/ ShortRace /\ Race
    \/ ShortRace /\ RaceAndReject
    \/ ShortRace /\ Then
    \/ ShortRace /\ DeferResolve
    \/ ShortRace /\ DeferReject
    \/ ShortRace /\ PromiseResolve
    \/ ShortRace /\ PromiseReject
    \/ ShortRace /\ ReturnValue
    \/ ShortRace /\ ReturnThrow

SpecRace == Init /\ [][NextRace]_vars

\* ---------------------------------------------------------------- self-join
\* operations and returns in one run of SpecSelf
MaxSelfSteps == 5

\* the outcomes of a splice of a list into itself: nothing is undefined when
\* both lists are empty
Splices(h) ==
    IF holders[h].pendingTasks_ = <<>> /\ holders[h].callStack_ = 0
    THEN {"kept"} ELSE SpliceOutcomes

\* p.then(q) where q is p or another Promise of p's holder
ThenSelf ==
    \E s \in HandleIds, other \in HandleIds :
        /\ Alive
        /\ UserHandle(Cur, s) /\ UserHandle(Cur, other)
        /\ handles[s].promiseHolder_ = handles[other].promiseHolder_
        /\ \E ub \in Splices(handles[s].promiseHolder_) :
              Install(thenSelf(Cur, s, ub))

\* the callable returns a Promise of the holder it was called for
ReturnSelf ==
    /\ Running
    /\ \E s \in HandleIds :
          /\ UserHandle(Cur, s)
          /\ handles[s].promiseHolder_ = Top(Cur).holder
    /\ \E ub \in Splices(Top(Cur).holder) :
          Install(returnSelf(Cur, ub))

ShortSelf == steps < MaxSelfSteps

NextSelf ==
    \/ ShortSelf /\ NewPromise
    \/ ShortSelf /\ Then
    \/ ShortSelf /\ ThenSelf
    \/ ShortSelf /\ ThenPromise
    \/ ShortSelf /\ DeferResolve
    \/ ShortSelf /\ DeferReject
    \/ ShortSelf /\ ReturnValue
    \/ ShortSelf /\ ReturnSelf
    \/ ShortSelf /\ ReturnThrow

SpecSelf == Init /\ [][NextSelf]_vars

\* ------------------------------------------------------------------ doWhile
\* operations and returns in one run of SpecLoop
MaxLoopSteps == 6

\* the DeferLoop objects user code can reach
LoopHandle(s) == handles[s].status = "loop"
InRun == Alive /\ stack # <<>> /\ Top(Cur).kind = "run"

DoWhile ==
    /\ Alive
    /\ NoCombinator
    /\ Install(doWhile(Cur))

RunReturn ==
    /\ InRun
    /\ Install(runReturn(Cur))

RunThrows ==
    /\ InRun
    /\ Install(runThrows(Cur))

LoopContinue ==
    \E d \in HandleIds :
        /\ Alive
        /\ LoopHandle(d)
        /\ Install(doContinue(Cur, d))

LoopBreak ==
    \E d \in HandleIds :
        /\ Alive
        /\ LoopHandle(d)
        /\ Install(doBreak(Cur, d))

LoopReject ==
    \E d \in HandleIds :
        /\ Alive
        /\ LoopHandle(d)
        /\ Install(loopReject(Cur, d))

ShortLoop == steps < MaxLoopSteps

NextLoop ==
    \/ ShortLoop /\ DoWhile
    \/ ShortLoop /\ RunReturn
    \/ ShortLoop /\ RunThrows
    \/ ShortLoop /\ LoopContinue
    \/ ShortLoop /\ LoopBreak
    \/ ShortLoop /\ LoopReject
    \/ ShortLoop /\ Then
    \/ ShortLoop /\ PromiseResolve
    \/ ShortLoop /\ PromiseReject
    \/ ShortLoop /\ ReturnValue
    \/ ShortLoop /\ ReturnThrow

SpecLoop == Init /\ [][NextLoop]_vars

\* ------------------------------------------------------ reading the log
Started(t) == \E i \in 1..Len(hist.order) : hist.order[i] = t
Pos(t)     == CHOOSE i \in 1..Len(hist.order) : hist.order[i] = t
StartedBefore(t1, t2) == Started(t1) /\ (Started(t2) => Pos(t1) < Pos(t2))
Settled(st) == st \in {kResolved, kRejected}

(* The assert of call() on the front task has not fired. *)
NeverAborted == ~aborted

(* join's two healthyCheck calls find nothing to throw about, which is why
   join is modelled without its runtime_error exits. *)
AlwaysHealthy == \A h \in HolderIds : LiveHolder(Cur, h) => healthyCheck(Cur, h)

\* C1: FIFO per holder.  Of two tasks attached to the same holder, the one
\* attached later is never started unless the one attached earlier was started
\* before it.
FifoPerHolder ==
    \A t1 \in TaskIds, t2 \in TaskIds :
        (/\ t1 < t2
         /\ hist.origin[t1] # NoHolder
         /\ hist.origin[t1] = hist.origin[t2]
         /\ Started(t2))
        => StartedBefore(t1, t2)

\* C2: a continuation returned a Promise that was still Pending.  A task
\* that waits behind it is started only when that Promise is settled, and
\* with the state and value the Promise shows; when the Promise is settled by
\* a resolve / reject and nothing with a callable lies before the first
\* waiting task, that task is started with the state and the argument of
\* that resolve / reject.
WaitsForReturnedPromise ==
    \A t \in TaskIds :
        (hist.waits[t] # 0 /\ Started(t))
        => /\ Settled(hist.hseen[t][1])
           /\ hist.seen[t] = hist.hseen[t]
           /\ (/\ hist.lone[t]
               /\ hist.ranOn[t] = hist.wleft[t]
               /\ hist.trig[t][1] = hist.ranOn[t])
              => hist.seen[t] = <<hist.trig[t][2], ArgOf(hist.ranOn[t])>>

ReturnedPromiseSettled ==
    \E t \in TaskIds :
        /\ hist.waits[t] # 0 /\ hist.lone[t] /\ Started(t)
        /\ hist.ranOn[t] = hist.wleft[t]
        /\ hist.ranOn[t] # hist.origin[t]
        /\ hist.trig[t][1] = hist.ranOn[t]
        /\ hist.seen[t] = <<kResolved, ArgOf(hist.ranOn[t])>>

\* C3: join order.  A task that join moved from right to left is started
\* only after every task that was pending on left at the join has been
\* started, and only after every task that stood before it in right's queue.
JoinedTasksRunLast ==
    \A t \in TaskIds :
        Started(t) =>
            /\ \A b \in hist.before[t] : Started(b) /\ Pos(b) < Pos(t)
            /\ \A a \in hist.ahead[t]  : Started(a) /\ Pos(a) < Pos(t)

JoinedTasksStarted ==
    \E t \in TaskIds :
        /\ Started(t)
        /\ hist.ranOn[t] # hist.origin[t]
        /\ \E b \in hist.before[t] : hist.origin[b] = hist.ranOn[t]
        /\ \E a \in hist.ahead[t] : hist.origin[a] = hist.origin[t]

\* the task that call() started next after t, in the same run of its loop
NextInRun(t, u) == Started(u) /\ hist.prev[u] = t

\* C4: pass-through.  A task whose callable for the holder's settlement is
\* empty leaves the holder's state and value as it found them, and the task
\* started next sees that same settlement.
PassThroughKeepsSettlement ==
    \A t \in TaskIds :
        hist.how[t] = "pass" =>
            /\ Settled(hist.seen[t][1])
            /\ hist.after[t] = hist.seen[t]
            /\ \A u \in TaskIds : NextInRun(t, u) => hist.seen[u] = hist.seen[t]

RejectionPassedThrough ==
    \E t \in TaskIds, u \in TaskIds :
        /\ NextInRun(t, u)
        /\ hist.how[t] = "pass"
        /\ \A s \in HandleIds : handles[s].task_ # t
        /\ hist.seen[u] = <<kRejected, ArgOf(hist.ranOn[u])>>

\* C5: a throw rejects.  An onResolved callable that raises bad_any_cast on
\* a Resolved holder leaves the holder Rejected with that exception; a
\* callable (onResolved or onRejected) whose body throws leaves the holder
\* Rejected with what it threw.
ThrowRejects ==
    \A t \in TaskIds :
        /\ (hist.how[t] = "mismatch" /\ hist.seen[t][1] = kResolved)
              => hist.after[t] = <<kRejected, BadAnyCast>>
        /\ hist.how[t] = "throw" => hist.after[t] = <<kRejected, ExcOf(t)>>

ThrowsHappened ==
    \E t \in TaskIds, u \in TaskIds :
        /\ hist.how[t] = "mismatch" /\ hist.seen[t][1] = kResolved
        /\ hist.how[u] = "throw" /\ hist.seen[u][1] = kRejected

\* C6 as stated: a task whose callable raised the type-mismatch leaves the
\* holder's state and value as it found them, also for an onResolved callable
\* on a Resolved holder.
MismatchPassesThrough ==
    \A t \in TaskIds :
        hist.how[t] = "mismatch" => hist.after[t] = hist.seen[t]

\* C6, amended: a type-mismatch of the onRejected callable on a Rejected
\* holder leaves state and value as they were; a type-mismatch of the
\* onResolved callable on a Resolved holder leaves the holder Rejected with
\* the bad_any_cast exception; in both cases the task started next sees the
\* settlement the mismatching task left.
MismatchOutcome ==
    \A t \in TaskIds :
        hist.how[t] = "mismatch" =>
            /\ hist.after[t] = IF hist.seen[t][1] = kRejected
                               THEN hist.seen[t]
                               ELSE <<kRejected, BadAnyCast>>
            /\ \A u \in TaskIds : NextInRun(t, u) => hist.seen[u] = hist.after[t]

ResolvedMismatchSeenNext ==
    \E t \in TaskIds, u \in TaskIds :
        /\ NextInRun(t, u)
        /\ hist.how[t] = "mismatch"
        /\ hist.seen[t] = <<kResolved, ArgOf(hist.ranOn[t])>>
        /\ hist.seen[u] = <<kRejected, BadAnyCast>>
        /\ hist.how[u] = "running"

\* C7: a type-mismatch of the onRejected callable on a Rejected holder ends
\* the task with the holder Rejected and its value untouched, and the task
\* started next is handed the original rejection.
RejectedMismatchKeepsPayload ==
    \A t \in TaskIds :
        (hist.how[t] = "mismatch" /\ hist.seen[t][1] = kRejected) =>
            /\ hist.after[t][1] = kRejected
            /\ hist.after[t][2] = hist.seen[t][2]
            /\ \A u \in TaskIds : NextInRun(t, u) => hist.seen[u] = hist.seen[t]

RejectedMismatchSeenNext ==
    \E t \in TaskIds, u \in TaskIds :
        /\ NextInRun(t, u)
        /\ hist.how[t] = "mismatch"
        /\ hist.seen[t] = <<kRejected, ArgOf(hist.ranOn[t])>>
        /\ hist.seen[u] = <<kRejected, ArgOf(hist.ranOn[t])>>
        /\ hist.how[u] = "running"

\* C8 as stated: seen between the runs of its continuations, a holder that
\* is Resolved or Rejected keeps that state for good.
MonotoneSettlement ==
    \A h \in HolderIds : ~hist.flips[h] /\ ~hist.unset[h]

\* C8, amended: seen between the runs of its continuations, a holder that
\* is Resolved or Rejected is never Pending again (it may still change from
\* one settled state to the other).
NeverPendingAgain ==
    \A h \in HolderIds : ~hist.unset[h]

RejectedThenResolved ==
    \E h \in HolderIds, t \in TaskIds :
        /\ hist.flips[h]
        /\ Quiet(Cur, h)
        /\ holders[h].state_ = kResolved
        /\ hist.ranOn[t] = h /\ hist.how[t] = "value" /\ hist.seen[t][1] = kRejected

SinkFrames == {i \in 1..Len(stack) : stack[i].kind = "sink"}

\* C9: the uncaught-exception handler.  A holder's destruction invokes the
\* handler, with the holder's value, exactly when the holder is Rejected and
\* the thread is not inside the handler already; a holder destroyed Pending
\* or Resolved, or destroyed while the handler runs, does not invoke it, so
\* that the handler is never entered twice.
SinkOnRejectedDestruction ==
    /\ \A h \in HolderIds :
          holders[h].status = "dead" =>
            /\ hist.dtor[h].fired <=>
                  (hist.dtor[h].state = kRejected /\ ~hist.dtor[h].nested)
            /\ hist.dtor[h].fired => hist.dtor[h].arg = holders[h].value_
    /\ Cardinality(SinkFrames) <= 1

GuardedDestructions ==
    \E h1 \in HolderIds, h2 \in HolderIds :
        /\ holders[h1].status = "dead" /\ holders[h2].status = "dead"
        /\ hist.dtor[h1].fired /\ hist.dtor[h1].arg = ArgOf(h1)
        /\ hist.dtor[h2].state = kRejected /\ hist.dtor[h2].nested
        /\ ~hist.dtor[h2].fired
        /\ hist.guarded > 0

\* a task that ran on holder h rejected it
TaskRejected(h) ==
    \E t \in TaskIds :
        /\ hist.ranOn[t] = h
        /\ \/ hist.how[t] = "throw"
           \/ hist.how[t] = "mismatch" /\ hist.seen[t][1] = kResolved

\* C10: no uncaught on caught chains.  When an onRejected handler has
\* consumed the rejection of a chain by returning a value, and nothing has
\* rejected the chain since, the uncaught-exception handler has not been
\* invoked for a holder of that chain on which no task rejected, shells
\* included.
NoSinkForCaughtChain ==
    \A h \in HolderIds :
        (/\ holders[h].status = "dead"
         /\ hist.dtor[h].fired
         /\ ~TaskRejected(h))
        => ~hist.caught[hist.chain[h]]

\* C11 as stated: when the run function of newPromise throws, the task that
\* newPromise attached is started with state Rejected and the thrown
\* exception as value, whatever run did with its Defer before the throw.
ThrowingRunRejects ==
    \A t \in TaskIds :
        hist.threw[t] # "no" =>
            /\ Started(t)
            /\ hist.seen[t] = <<kRejected, ExcOf(t)>>

\* C11, amended: when run throws without having resolved or rejected its
\* Defer, the task that newPromise attached is started with state Rejected
\* and the thrown exception as value; when run had resolved or rejected its
\* Defer before the throw, the task has been started with that settlement and
\* the exception changes nothing.
ThrowingRunOutcome ==
    \A t \in TaskIds :
        hist.threw[t] # "no" =>
            /\ Started(t)
            /\ hist.seen[t] = IF hist.threw[t] = "first"
                              THEN <<kRejected, ExcOf(t)>>
                              ELSE <<hist.threw[t], ArgOf(hist.origin[t])>>

ThrowingRunsSeen ==
    \E t \in TaskIds, u \in TaskIds :
        /\ hist.threw[t] = "first" /\ hist.seen[t] = <<kRejected, ExcOf(t)>>
        /\ hist.threw[u] = kResolved /\ hist.seen[u] = <<kResolved, ArgOf(hist.origin[u])>>

\* C12: a resolve or reject on a Promise whose holder is Resolved or Rejected,
\* or on a Defer whose task is no longer Pending, changes no holder (state,
\* value, pending queue), no task and no frame, and starts no task.
SettleAgainIsNoOp ==
    /\ hist.again.promise # "changed"
    /\ hist.again.defer # "changed"

SettledAgain ==
    /\ hist.again.promise = "same"
    /\ hist.again.defer = "same"
    /\ \E h \in HolderIds : holders[h].state_ = kRejected /\ Quiet(Cur, h)

ForwardTarget(f) == handles[tasks[f].captured.defer].task_

\* C19: then(Defer).  When the task that p.then(d) attached is started with p
\* Resolved with v while d's task is still Pending, d's task is started with
\* d's holder Resolved with v; when it is started with p Rejected with v, d's
\* task is started with d's holder Rejected with v.  As long as the forwarding
\* task has not been started, the library has not settled d's holder: when
\* d's task was started by the library, a forwarding task of d had been started.
ForwardSettlesDefer ==
    \A f \in TaskIds :
        /\ hist.fwd[f] = "sent" =>
              /\ Settled(hist.seen[f][1])
              /\ Started(ForwardTarget(f))
              /\ hist.seen[ForwardTarget(f)] = hist.seen[f]
        /\ (f \in ForwardTasks(Cur) /\ Started(ForwardTarget(f))
               /\ hist.via[ForwardTarget(f)] # NoTask) =>
              /\ hist.fwd[hist.via[ForwardTarget(f)]] = "sent"
              /\ ForwardTarget(hist.via[ForwardTarget(f)]) = ForwardTarget(f)
              /\ hist.seen[ForwardTarget(f)] = hist.seen[hist.via[ForwardTarget(f)]]

ForwardedRejection ==
    \E f \in TaskIds :
        /\ hist.fwd[f] = "sent"
        /\ hist.seen[f] = <<kRejected, ArgOf(hist.origin[f])>>
        /\ hist.seen[ForwardTarget(f)] = hist.seen[f]
        /\ hist.origin[ForwardTarget(f)] # hist.origin[f]

\* C20: at most one task of a holder is live at any instant.  While a callable
\* of a task of holder H is executing, no other task of H is started: no two
\* callables on the stack belong to tasks that were started on the same holder.
OneLiveTaskPerHolder ==
    \A i \in 1..Len(stack), j \in 1..Len(stack) :
        (i < j /\ stack[i].kind = "call" /\ stack[j].kind = "call") =>
            stack[i].holder # stack[j].holder

\* the first task of the combinator's Promise, which its Defer settles
CombinatorTask(h) == handles[cells[h].defer].task_

\* the tasks that the combinator of holder h has attached to its inputs
CallablesOf(h) ==
    {t \in TaskIds : /\ tasks[t].status = "made"
                     /\ tasks[t].captured.cell = h
                     /\ tasks[t].captured.index > 0}

CallableOf(h, i) ==
    CHOOSE t \in CallablesOf(h) : tasks[t].captured.index = i

\* the library has settled the combinator's Defer (user code can settle the
\* Promise it was handed as well)
SettledByCallable(h) ==
    Started(CombinatorTask(h)) /\ hist.via[CombinatorTask(h)] # NoTask

\* C14: all.  When all resolves its Promise, every input has resolved before,
\* and the value is the sequence of the values the inputs had, in input order;
\* all of an empty list is resolved with an empty sequence when it returns.
AllResolvesInInputOrder ==
    \A h \in HolderIds : cells[h].kind = "all" =>
        /\ cells[h].list = <<>> =>
              /\ Started(CombinatorTask(h))
              /\ hist.seen[CombinatorTask(h)] = <<kResolved, NoArgs>>
        /\ (/\ cells[h].list # <<>>
            /\ SettledByCallable(h)
            /\ hist.seen[CombinatorTask(h)][1] = kResolved) =>
              /\ \A t \in CallablesOf(h) :
                    /\ Started(t)
                    /\ Pos(t) < Pos(CombinatorTask(h))
                    /\ hist.seen[t][1] = kResolved
              /\ hist.seen[CombinatorTask(h)][2] =
                    ArrOf([i \in 1..Len(cells[h].list) |->
                              hist.seen[CallableOf(h, i)][2]])

AllResolvedOutOfOrder ==
    \E h \in HolderIds :
        /\ cells[h].kind = "all" /\ Len(cells[h].list) = 2
        /\ SettledByCallable(h)
        /\ Started(CallableOf(h, 1)) /\ Started(CallableOf(h, 2))
        /\ Pos(CallableOf(h, 2)) < Pos(CallableOf(h, 1))
        /\ hist.seen[CallableOf(h, 1)][2] # hist.seen[CallableOf(h, 2)][2]
        /\ hist.seen[CombinatorTask(h)] =
              <<kResolved, ArrOf(<<hist.seen[CallableOf(h, 1)][2],
                                   hist.seen[CallableOf(h, 2)][2]>>)>>

\* the callables of h that were started with a rejected input
RejectedCallables(h) ==
    {t \in CallablesOf(h) : Started(t) /\ hist.seen[t][1] = kRejected}

FirstRejected(h) ==
    CHOOSE t \in RejectedCallables(h) :
        \A u \in RejectedCallables(h) : Pos(t) <= Pos(u)

\* C15: all.  When an input is rejected, all's Promise is settled; if the
\* library settled it, it is Rejected with the value of the input rejection
\* that came first, and no later resolution or rejection of an input changes
\* the state or the value of the holder of all's Defer.
AllRejectsWithFirstRejection ==
    \A h \in HolderIds : (cells[h].kind = "all" /\ RejectedCallables(h) # {}) =>
        /\ Started(CombinatorTask(h))
        /\ hist.late[FirstRejected(h)] = "first" =>
              hist.seen[CombinatorTask(h)] =
                  <<kRejected, hist.seen[FirstRejected(h)][2]>>
        /\ \A t \in CallablesOf(h) : hist.late[t] # "moved"

AllRejectedThenSettledAgain ==
    \E h \in HolderIds :
        /\ cells[h].kind = "all"
        /\ Cardinality(RejectedCallables(h)) = 2
        /\ hist.late[FirstRejected(h)] = "first"
        /\ \E t \in RejectedCallables(h) :
              /\ hist.late[t] = "kept"
              /\ hist.seen[t][2] # hist.seen[FirstRejected(h)][2]
        /\ hist.seen[CombinatorTask(h)] =
              <<kRejected, hist.seen[FirstRejected(h)][2]>>

\* the callables of h that have been started
StartedCallables(h) == {t \in CallablesOf(h) : Started(t)}

FirstStarted(h) ==
    CHOOSE t \in StartedCallables(h) : \A u \in StartedCallables(h) : Pos(t) <= Pos(u)

\* C16: race.  The Promise of race is settled with the state and the value of
\* the input that settles first, and the recorded winner is the index of that
\* input; what the other inputs do later changes neither the holder of race's
\* Defer nor the recorded winner.
RaceKeepsFirst ==
    \A h \in HolderIds : (cells[h].kind = "race" /\ StartedCallables(h) # {}) =>
        /\ Started(CombinatorTask(h))
        /\ hist.late[FirstStarted(h)] = "first" =>
              hist.seen[CombinatorTask(h)] = hist.seen[FirstStarted(h)]
        /\ \A t \in CallablesOf(h) : hist.late[t] # "moved"
        /\ cells[h].winner = tasks[FirstStarted(h)].captured.index

\* C17: raceAndReject.  When the callable that rejects the losers is done, no
\* input other than the one whose settlement the race adopted is left
\* Pending, and the callable has not rejected that input.
RaceAndRejectSparesWinner ==
    \A h \in HolderIds : (cells[h].kind = "race" /\ hist.loop[h].done) =>
        \A t \in CallablesOf(h) : hist.late[t] = "first" =>
            /\ tasks[t].captured.index \notin hist.loop[h].rejected
            /\ hist.loop[h].left \subseteq {tasks[t].captured.index}

\* the task that doWhile attached to the Promise of the round whose DeferLoop
\* is d
LoopTasks(d) ==
    {t \in TaskIds : /\ tasks[t].status = "made"
                     /\ tasks[t].captured.defer = d
                     /\ tasks[t].captured.cell = 0
                     /\ tasks[t].captured.index > 0}
LoopTask(d) == CHOOSE t \in LoopTasks(d) : TRUE

\* what the outer Promise of doWhile is settled with when the round of the
\* DeferLoop d ends the loop
LoopOutcome(d) ==
    CASE hist.did[d] = "break" ->
           <<kResolved, BreakValues(handles[d].promiseHolder_)>>
      [] hist.did[d] = "reject" ->
           <<kRejected, ArgOf(handles[d].promiseHolder_)>>
      [] hist.did[d] = "threw" ->
           <<kRejected, ExcOf(handles[d].task_)>>

\* user code attached nothing to the Promise of the round of d before doWhile
\* attached its own callables
LoopTaskFirst(d) ==
    \A u \in TaskIds :
        (handles[d].task_ < u /\ u < LoopTask(d))
        => hist.origin[u] # handles[d].promiseHolder_

\* C18 as stated: whenever doContinue has been called on the DeferLoop of a
\* round, run has been invoked again; whenever doBreak or reject has been
\* called, run has not been invoked again and the outer Promise has been
\* settled with the values of doBreak, or with the payload of reject.
DoWhileFollowsCalls ==
    \A k \in 1..Len(hist.runs) :
        LET d == hist.runs[k]
        IN  LoopTasks(d) # {} =>
              /\ "continue" \in hist.called[d] => Len(hist.runs) > k
              /\ "break" \in hist.called[d] =>
                    /\ Len(hist.runs) = k
                    /\ hist.after[LoopTask(d)] =
                          <<kResolved, BreakValues(handles[d].promiseHolder_)>>
              /\ "reject" \in hist.called[d] =>
                    /\ Len(hist.runs) = k
                    /\ hist.after[LoopTask(d)] =
                          <<kRejected, ArgOf(handles[d].promiseHolder_)>>

\* C18, amended: doWhile.  Every round gets a DeferLoop of its own, and the
\* first call on it that finds the round unsettled decides the round.  When
\* user code attached nothing to the Promise of the round before doWhile
\* attached its own callables: a round decided by doContinue is followed by
\* another invocation of run; a round decided by doBreak, by reject or by an
\* exception of run is not, the outer Promise is settled as resolved with the
\* values of doBreak, or as rejected with the payload of the rejection, and
\* the task that was waiting on the outer Promise is started with that
\* settlement.
DoWhileFollowsLoop ==
    \A k \in 1..Len(hist.runs) :
        LET d == hist.runs[k]
        IN  /\ \A j \in 1..Len(hist.runs) : j # k => hist.runs[j] # d
            /\ (LoopTasks(d) # {} /\ LoopTaskFirst(d)) =>
                  /\ hist.did[d] = "continue" =>
                        Started(LoopTask(d)) /\ Len(hist.runs) > k
                  /\ hist.did[d] \in {"break", "reject", "threw"} =>
                        /\ Started(LoopTask(d))
                        /\ Len(hist.runs) = k
                        /\ hist.how[LoopTask(d)] = "promise"
                        /\ hist.after[LoopTask(d)] = LoopOutcome(d)
                        /\ \A u \in TaskIds :
                              NextInRun(LoopTask(d), u)
                              => hist.seen[u] = LoopOutcome(d)

LoopContinuedThenBroken ==
    /\ Len(hist.runs) = 2
    /\ hist.did[hist.runs[1]] = "continue"
    /\ hist.did[hist.runs[2]] = "break"
    /\ LoopTasks(hist.runs[2]) # {}
    /\ LoopTaskFirst(hist.runs[1]) /\ LoopTaskFirst(hist.runs[2])
    /\ \E u \in TaskIds :
          /\ NextInRun(LoopTask(hist.runs[2]), u)
          /\ hist.seen[u] = <<kResolved, BreakValues(handles[hist.runs[2]].promiseHolder_)>>

\* C21: then on a Pending holder.  A step in which user code attaches a task
\* to a holder that exists and is Pending (not yet settled, or Pending while
\* one of its callables is running) appends the task to the end of that
\* holder's queue and does nothing else: no task is started, no callable is
\* invoked, no holder changes its state or value, and no SharedPromise is
\* made or retargeted (then returns the Promise it was called on).
ThenOnPendingOnlyAppends ==
    [][\A t \in TaskIds :
          (/\ tasks[t].status = "unborn"
           /\ tasks'[t].status = "made"
           /\ tasks'[t].captured = NoCapture
           /\ LiveHolder(Cur, hist'.origin[t])
           /\ holders[hist'.origin[t]].state_ = kPending)
          => /\ holders' = [holders EXCEPT
                               ![hist'.origin[t]].pendingTasks_ = Append(@, t)]
             /\ tasks'[t].state_ = kPending
             /\ tasks'[t].promiseHolder_ = hist'.origin[t]
             /\ \A u \in TaskIds \ {t} : tasks'[u] = tasks[u]
             /\ handles' = handles
             /\ stack' = stack
             /\ hist'.order = hist.order
             /\ aborted' = aborted]_vars

\* a task attached to a holder while one of the holder's callables was
\* running is waiting in the queue, behind a task attached to the holder
\* before it was settled
ThenOnPendingSeen ==
    \E t \in hist.nested, u \in TaskIds :
        /\ u \notin hist.nested
        /\ tasks[t].state_ = kPending /\ tasks[u].state_ = kPending
        /\ hist.origin[t] = hist.origin[u]
        /\ holders[hist.origin[t]].state_ = kPending
        /\ \E i, j \in 1..Len(holders[hist.origin[t]].pendingTasks_) :
              /\ i < j
              /\ holders[hist.origin[t]].pendingTasks_[i] = u
              /\ holders[hist.origin[t]].pendingTasks_[j] = t

\* holder h has been the right side of a join
Shell(h) == hist.chain[h] # h

\* C22: a holder that was the right side of a join stays a shell: while it
\* exists its state is Resolved and its queue and its owner list are empty,
\* and its destructor does not invoke the uncaught-exception handler.
ShellStaysResolved ==
    \A h \in HolderIds :
        Shell(h) =>
          /\ holders[h].status = "live" =>
                /\ holders[h].state_ = kResolved
                /\ holders[h].pendingTasks_ = <<>>
                /\ holders[h].owners_ = {}
          /\ holders[h].status = "dead" => ~hist.dtor[h].fired

\* C23: trace bound.  The call trace of a holder never has more than
\* PM_MAX_LOC records.
TraceBound ==
    \A h \in HolderIds : holders[h].callStack_ =< PM_MAX_LOC

\* C24: owner consistency.  Every SharedPromise that is alive, the one inside
\* a Defer included, is in the owner list of the holder it points at, and
\* none of them points at a holder that was the right side of a join.
OwnerConsistency ==
    \A s \in HandleIds :
        LiveHandle(Cur, s) =>
          /\ s \in holders[handles[s].promiseHolder_].owners_
          /\ ~Shell(handles[s].promiseHolder_)

\* C25: join idempotence.  A join of a holder into itself has changed neither
\* the holder's state, value, queue nor owner list; and for two different
\* holders, a second join(left, right) leaves left's owner list and queue as
\* the first join left them.
JoinIdempotent ==
    /\ hist.selfJoin # "changed"
    /\ \A l \in HolderIds, r \in HolderIds :
          (l # r /\ LiveHolder(Cur, l) /\ LiveHolder(Cur, r))
          => LET once  == join(Cur, l, r)
                 twice == join(once, l, r)
             IN  /\ twice.holders[l].owners_ = once.holders[l].owners_
                 /\ twice.holders[l].pendingTasks_ = once.holders[l].pendingTasks_

\* C26: every healthyCheck at the entry and at the exit of a join has
\* returned: each task in the queue of the holder was Pending and pointed
\* back at the holder, and each living owner pointed at the holder.
JoinsHealthy == hist.healthy

\* a join that moved a task and an owner from right to left has been through
\* its four checks
JoinedWithTasks ==
    \E t \in TaskIds, s \in HandleIds :
        /\ tasks[t].status = "made" /\ tasks[t].state_ = kPending
        /\ tasks[t].promiseHolder_ # hist.origin[t]
        /\ LiveHandle(Cur, s)
        /\ Shell(hist.origin[t])
        /\ handles[s].promiseHolder_ = tasks[t].promiseHolder_
        /\ s \in holders[tasks[t].promiseHolder_].owners_
        /\ \E s2 \in holders[tasks[t].promiseHolder_].owners_ : s2 # s

\* no call() is in progress and a settled holder has no task waiting
SettledQueuesEmpty ==
    stack = <<>> =>
        \A h \in HolderIds :
            (LiveHolder(Cur, h) /\ Settled(holders[h].state_))
            => holders[h].pendingTasks_ = <<>>

\* C27: the assert of call() on the front of the queue has never failed, and
\* while no call() is in progress no Resolved or Rejected holder has a task
\* waiting.
FrontAssertHolds == NeverAborted /\ SettledQueuesEmpty

\* ==================================================== multi-threaded build
\* With PROMISE_MULTITHREAD every PromiseHolder has a Mutex of its own, made
\* in its constructor and never replaced, so a mutex is named by its holder.
\* Several agents call then / resolve on the same Promises; an agent's steps
\* are the places of the code where another agent can come in between: a
\* read of a pointer outside a lock, a lock that may block, a wait, a user
\* callable.  A plain read that races with a write of another agent is a step
\* of its own, so that it may see the value before or after the write.

MaxAgents  == 2    \* threads
MaxOps     == 2    \* calls a thread makes; the first thread makes one less
MaxMtTasks == 4    \* tasks made in all
Agents     == 1..MaxAgents

\* the Promises p1 and p2 that newPromise made before the threads start: the
\* SharedPromise p points at holder p
MaxPromises == 2
Promises    == 1..MaxPromises
\* the SharedPromise inside the Defer an agent made in Promise::resolve
DeferHandle == 0

\* what the front() of an empty list compares like: something that is not
\* the task, or something that is and whose pop_front ends the process
FrontOutcomes == {"differs", "crash"}

\* an agent outside the library
Idle ==
    [pc |-> "idle", this |-> 0, other |-> 0, fn |-> "empty", task |-> 0,
     promiseHolder |-> 0, mutex0 |-> 0, mutex1 |-> 0, lock_count |-> 0,
     handle |-> 0, mutex |-> 0, back |-> "idle", returned |-> FALSE,
     owners |-> <<>>, left |-> 0, after |-> "idle", held |-> 0, defer |-> 0]

\* Task{ kPending, holder, loc, onResolved, onRejected }: onResolved is empty,
\* or returns a value, or returns the Promise `returns`
NewTask(h, fn, returns) ==
    [state_ |-> kPending, promiseHolder_ |-> h, onResolved_ |-> fn,
     returns |-> returns, runs |-> 0]

\* the program after newPromise made p1 and p2; the holders in P are still
\* Pending and keep the task newPromise gave them, the others were resolved
\* by their run function
Threads(P) ==
    [handles |-> [p \in Promises |-> p],
     holders |-> [h \in Promises |->
                    [state_        |-> IF h \in P THEN kPending ELSE kResolved,
                     pendingTasks_ |-> IF h \in P
                                       THEN <<Cardinality({g \in P : g =< h})>>
                                       ELSE <<>>,
                     owners_       |-> <<h>>,
                     by            |-> 0,
                     lock_count_   |-> 0]],
     tasks   |-> [i \in 1..Cardinality(P) |->
                    NewTask(CHOOSE h \in P : Cardinality({g \in P : g =< h}) = i,
                            "empty", 0)],
     agent   |-> [a \in Agents |-> Idle],
     ops     |-> [a \in Agents |-> 0],
     crashed |-> FALSE]

\* the holder a SharedPromise points at
TargetOf(M, a, p) ==
    IF p = DeferHandle THEN M.agent[a].defer ELSE M.handles[p]

\* std::recursive_mutex::lock returns: the mutex is free or the agent's own
Lockable(M, a, h) == M.holders[h].by \in {0, a}

\* Mutex::lock(n)
lock(M, a, h, n) ==
    [M EXCEPT !.holders[h].by = a, !.holders[h].lock_count_ = @ + n]

\* Mutex::unlock(n)
unlock(M, h, n) ==
    [M EXCEPT !.holders[h].lock_count_ = @ - n,
              !.holders[h].by = IF M.holders[h].lock_count_ = n THEN 0 ELSE @]

Go(M, a, pc) == [M EXCEPT !.agent[a].pc = pc]

\* the call of the agent returns to the user
Leave(M, a) == [M EXCEPT !.agent[a] = Idle, !.ops[a] = @ + 1]

\* --- SharedPromise::obtainLock
enterObtainLock(M, a, p, back) ==
    [M EXCEPT !.agent[a].pc = "obtainLock", !.agent[a].handle = p,
              !.agent[a].back = back]

\* holder = atomic_load(&promiseHolder_); mutex = holder->mutex_
obtainLoad(M, a) ==
    [M EXCEPT !.agent[a].mutex = TargetOf(M, a, M.agent[a].handle),
              !.agent[a].pc = "lock"]

\* mutex->lock()
obtainLocked(M, a) == Go(lock(M, a, M.agent[a].mutex, 1), a, "test")

\* if (mutex == this->promiseHolder_->mutex_) return mutex; mutex->unlock()
obtainTest(M, a) ==
    IF M.agent[a].mutex = TargetOf(M, a, M.agent[a].handle)
    THEN Go(M, a, M.agent[a].back)
    ELSE Go(unlock(M, M.agent[a].mutex, 1), a, "obtainLock")

\* --- join under the locks of both holders
\* the loop over the owners: the next owner->obtainLock(), or the end
nextOwner(M, a) ==
    IF M.agent[a].owners = <<>>
    THEN Go(M, a, M.agent[a].after)
    ELSE enterObtainLock(M, a, Head(M.agent[a].owners), "store")

\* the tasks, the queue, the owners list and the state of right
joinSplice(M, a, left, right, after, ub) ==
    IF left # right
    THEN nextOwner(
           [M EXCEPT
              !.tasks = [t \in DOMAIN @ |->
                           IF \E i \in 1..Len(M.holders[right].pendingTasks_) :
                                 M.holders[right].pendingTasks_[i] = t
                           THEN [@[t] EXCEPT !.promiseHolder_ = left]
                           ELSE @[t]],
              !.holders[left].pendingTasks_ =
                  @ \o M.holders[right].pendingTasks_,
              !.holders[right].pendingTasks_ = <<>>,
              !.holders[right].owners_ = <<>>,
              !.holders[right].state_ = kResolved,
              !.agent[a].owners = M.holders[right].owners_,
              !.agent[a].left = left,
              !.agent[a].after = after], a)
    ELSE IF ub = "crash" /\ M.holders[left].pendingTasks_ # <<>>
    THEN [M EXCEPT !.crashed = TRUE]
    ELSE nextOwner(
           [M EXCEPT
              !.holders[left].pendingTasks_ =
                  IF ub = "emptied" THEN <<>> ELSE @,
              !.holders[left].owners_ = <<>>,
              !.holders[left].state_ = kResolved,
              !.agent[a].owners = M.holders[left].owners_,
              !.agent[a].left = left,
              !.agent[a].after = after], a)

\* atomic_store(&owner->promiseHolder_, left); left->owners_.push_back(owner);
\* the lock_guard of the owner's mutex ends
joinStore(M, a) ==
    nextOwner(
      unlock([M EXCEPT
                !.handles[Head(M.agent[a].owners)] = M.agent[a].left,
                !.holders[M.agent[a].left].owners_ =
                    Append(@, Head(M.agent[a].owners)),
                !.agent[a].owners = Tail(@)],
             M.agent[a].mutex, 1), a)

\* --- Promise::then(onResolved, onRejected)
\* under the lock: make the task and push it; then call(task)
thenPush(M, a) ==
    unlock([M EXCEPT
              !.tasks = Append(@, NewTask(M.handles[M.agent[a].this],
                                          M.agent[a].fn, M.agent[a].other)),
              !.holders[M.handles[M.agent[a].this]].pendingTasks_ =
                  Append(@, Len(M.tasks) + 1),
              !.agent[a].task = Len(M.tasks) + 1,
              !.agent[a].pc = "call"],
           M.agent[a].mutex, 1)

\* --- Promise::then(Promise)
\* mutex0 is locked: promise.sharedPromise_->obtainLock()
thenLock1(M, a) ==
    enterObtainLock([M EXCEPT !.agent[a].mutex0 = M.agent[a].mutex],
                    a, M.agent[a].other, "join")

\* mutex1 is locked: join(this holder, the holder of promise)
thenJoin(M, a, ub) ==
    joinSplice([M EXCEPT !.agent[a].mutex1 = M.agent[a].mutex], a,
               M.handles[M.agent[a].this], M.handles[M.agent[a].other],
               "front", ub)

\* task = front of the queue if there is one; both lock_guards end
thenFront(M, a) ==
    IF M.holders[M.handles[M.agent[a].this]].pendingTasks_ = <<>>
    THEN Leave(unlock(unlock(M, M.agent[a].mutex1, 1), M.agent[a].mutex0, 1), a)
    ELSE [unlock(unlock(M, M.agent[a].mutex1, 1), M.agent[a].mutex0, 1)
             EXCEPT !.agent[a].task =
                        Head(M.holders[M.handles[M.agent[a].this]].pendingTasks_),
                    !.agent[a].pc = "call"]

\* --- Promise::resolve
\* under the lock: task = front of the queue if there is one
resolveFront(M, a) ==
    IF M.holders[M.handles[M.agent[a].this]].pendingTasks_ = <<>>
    THEN Leave(unlock(M, M.agent[a].mutex, 1), a)
    ELSE [unlock(M, M.agent[a].mutex, 1)
             EXCEPT !.agent[a].task =
                        Head(M.holders[M.handles[M.agent[a].this]].pendingTasks_),
                    !.agent[a].pc = "Defer"]

\* Defer::Defer: a SharedPromise of the holder the task points at
deferMake(M, a) ==
    enterObtainLock(
      [M EXCEPT !.agent[a].defer = M.tasks[M.agent[a].task].promiseHolder_],
      a, DeferHandle, "made")

\* the constructor's lock_guard ends; Defer::resolve takes the lock again
deferMade(M, a) ==
    enterObtainLock(unlock(M, M.agent[a].mutex, 1), a, DeferHandle, "settle")

\* the call is over: the lock_guard of Defer::resolve ends if there is one
callReturn(M, a) ==
    Leave(IF M.agent[a].held # 0 THEN unlock(M, M.agent[a].held, 1) ELSE M, a)

\* Defer::resolve under the lock
deferResolve(M, a) ==
    IF M.tasks[M.agent[a].task].state_ # kPending
    THEN Leave(unlock(M, M.agent[a].mutex, 1), a)
    ELSE [M EXCEPT !.holders[M.agent[a].defer].state_ = kResolved,
                   !.agent[a].held = M.agent[a].mutex,
                   !.agent[a].pc = "call"]

\* --- call(task)
\* promiseHolder = task->promiseHolder_.lock(), outside every lock
callRead(M, a) ==
    [M EXCEPT !.agent[a].promiseHolder = M.tasks[M.agent[a].task].promiseHolder_,
              !.agent[a].pc = "stage1"]

\* std::unique_lock<Mutex> lock(*mutex)
callLock(M, a) == Go(lock(M, a, M.agent[a].promiseHolder, 1), a, "check")

\* the task leaves the queue and takes the holder's state; with a callable
\* the holder shows Pending and unlock_guard_t drops every level of the lock
callPop(M, a) ==
    IF M.tasks[M.agent[a].task].onResolved_ = "empty"
    THEN Go(unlock([M EXCEPT
                      !.holders[M.agent[a].promiseHolder].pendingTasks_ = Tail(@),
                      !.tasks[M.agent[a].task].state_ =
                          M.holders[M.agent[a].promiseHolder].state_],
                   M.agent[a].promiseHolder, 1), a, "stage2")
    ELSE unlock([M EXCEPT
                   !.holders[M.agent[a].promiseHolder].pendingTasks_ = Tail(@),
                   !.tasks[M.agent[a].task].state_ =
                       M.holders[M.agent[a].promiseHolder].state_,
                   !.holders[M.agent[a].promiseHolder].state_ = kPending,
                   !.agent[a].lock_count =
                       M.holders[M.agent[a].promiseHolder].lock_count_,
                   !.agent[a].pc = "run"],
                M.agent[a].promiseHolder,
                M.holders[M.agent[a].promiseHolder].lock_count_)

\* while (pendingTasks.front() != task) mutex->cond_.wait(lock)
callFront(M, a, ub) ==
    IF M.holders[M.agent[a].promiseHolder].pendingTasks_ = <<>>
    THEN IF ub = "crash"
         THEN [M EXCEPT !.crashed = TRUE]
         ELSE Go(unlock(M, M.agent[a].promiseHolder, 1), a, "wait")
    ELSE IF Head(M.holders[M.agent[a].promiseHolder].pendingTasks_)
               # M.agent[a].task
    THEN Go(unlock(M, M.agent[a].promiseHolder, 1), a, "wait")
    ELSE callPop(M, a)

\* the two returns at the head of the first stage, then the loop
callCheck(M, a, ub) ==
    IF \/ M.tasks[M.agent[a].task].state_ # kPending
       \/ M.holders[M.agent[a].promiseHolder].state_ = kPending
    THEN callReturn(unlock(M, M.agent[a].promiseHolder, 1), a)
    ELSE callFront(M, a, ub)

\* cond_.wait returns with the lock taken again
callWake(M, a, ub) == callFront(lock(M, a, M.agent[a].promiseHolder, 1), a, ub)

\* the callable runs; a returned Promise is locked before the holder's mutex
callRun(M, a) ==
    IF M.tasks[M.agent[a].task].onResolved_ = "value"
    THEN [M EXCEPT !.tasks[M.agent[a].task].runs = @ + 1,
                   !.agent[a].pc = "relock"]
    ELSE enterObtainLock([M EXCEPT !.tasks[M.agent[a].task].runs = @ + 1],
                         a, M.tasks[M.agent[a].task].returns, "relock")

\* ~unlock_guard_t; then the value settles the holder and the first stage
\* ends, or the holder is joined into the holder of the returned Promise
callRelock(M, a, ub) ==
    IF M.tasks[M.agent[a].task].onResolved_ = "value"
    THEN Go(unlock([lock(M, a, M.agent[a].promiseHolder, M.agent[a].lock_count)
                      EXCEPT !.holders[M.agent[a].promiseHolder].state_ = kResolved],
                   M.agent[a].promiseHolder, 1), a, "stage2")
    ELSE joinSplice([lock(M, a, M.agent[a].promiseHolder, M.agent[a].lock_count)
                       EXCEPT !.agent[a].mutex0 = M.agent[a].mutex],
                    a, M.handles[M.tasks[M.agent[a].task].returns],
                    M.agent[a].promiseHolder, "joined", ub)

\* promiseHolder = promise.sharedPromise_->promiseHolder_; lock0 and the
\* first stage's lock end
callJoined(M, a) ==
    [unlock(unlock(M, M.agent[a].mutex0, 1), M.agent[a].promiseHolder, 1)
        EXCEPT !.agent[a].promiseHolder =
                   M.handles[M.tasks[M.agent[a].task].returns],
               !.agent[a].pc = "stage2"]

\* the second stage under the lock: the next task, or return
callSecond(M, a) ==
    IF M.holders[M.agent[a].promiseHolder].pendingTasks_ = <<>>
    THEN callReturn(M, a)
    ELSE [M EXCEPT !.agent[a].task =
                       Head(M.holders[M.agent[a].promiseHolder].pendingTasks_),
                   !.agent[a].pc = "call"]

\* --- the agents' steps
\* agent a's step leaves M; `returned` marks the state obtainLock returned in
MtStep(a, M) ==
    /\ mt' = [M EXCEPT !.agent[a].returned =
                           /\ mt.agent[a].pc = "test"
                           /\ M.agent[a].pc = mt.agent[a].back]
    /\ UNCHANGED <<holders, tasks, handles, cells, stack, aborted, steps, hist>>

At(a, pc) == ~mt.crashed /\ mt.agent[a].pc = pc

CanBegin(a) ==
    At(a, "idle") /\ mt.ops[a] < (IF a = 1 THEN MaxOps - 1 ELSE MaxOps)

\* p.then(fn) with a callable that returns a value
BeginThenBy(a) ==
    /\ CanBegin(a) /\ Len(mt.tasks) < MaxMtTasks
    /\ \E p \in Promises :
          MtStep(a, enterObtainLock(
                      [mt EXCEPT !.agent[a].this = p, !.agent[a].fn = "value"],
                      a, p, "push"))

\* p.then(fn) with a callable that returns the Promise q
BeginThenReturningBy(a) ==
    /\ CanBegin(a) /\ Len(mt.tasks) < MaxMtTasks
    /\ \E p \in Promises, q \in Promises :
          MtStep(a, enterObtainLock(
                      [mt EXCEPT !.agent[a].this = p, !.agent[a].fn = "promise",
                                 !.agent[a].other = q],
                      a, p, "push"))

\* p.then(q)
BeginThenPromiseBy(a) ==
    /\ CanBegin(a)
    /\ \E p \in Promises, q \in Promises :
          /\ p # q
          /\ MtStep(a, enterObtainLock(
                         [mt EXCEPT !.agent[a].this = p, !.agent[a].other = q],
                         a, p, "lock1"))

\* p.resolve()
BeginResolveBy(a) ==
    /\ CanBegin(a)
    /\ \E p \in Promises :
          MtStep(a, enterObtainLock([mt EXCEPT !.agent[a].this = p],
                                    a, p, "resolve"))

ObtainLoadBy(a)  == At(a, "obtainLock") /\ MtStep(a, obtainLoad(mt, a))
ObtainLockBy(a)  == /\ At(a, "lock")
                    /\ Lockable(mt, a, mt.agent[a].mutex)
                    /\ MtStep(a, obtainLocked(mt, a))
ObtainTestBy(a)  == At(a, "test") /\ MtStep(a, obtainTest(mt, a))
JoinStoreBy(a)   == At(a, "store") /\ MtStep(a, joinStore(mt, a))
ThenPushBy(a)    == At(a, "push") /\ MtStep(a, thenPush(mt, a))
ThenLock1By(a)   == At(a, "lock1") /\ MtStep(a, thenLock1(mt, a))
ThenJoinBy(a)    == /\ At(a, "join")
                    /\ \E ub \in SpliceOutcomes : MtStep(a, thenJoin(mt, a, ub))
ThenFrontBy(a)   == At(a, "front") /\ MtStep(a, thenFront(mt, a))
ResolveFrontBy(a) == At(a, "resolve") /\ MtStep(a, resolveFront(mt, a))
DeferMakeBy(a)   == At(a, "Defer") /\ MtStep(a, deferMake(mt, a))
DeferMadeBy(a)   == At(a, "made") /\ MtStep(a, deferMade(mt, a))
DeferResolveBy(a) == At(a, "settle") /\ MtStep(a, deferResolve(mt, a))
CallReadBy(a)    == At(a, "call") /\ MtStep(a, callRead(mt, a))
CallLockBy(a)    == /\ At(a, "stage1")
                    /\ Lockable(mt, a, mt.agent[a].promiseHolder)
                    /\ MtStep(a, callLock(mt, a))
CallCheckBy(a)   == /\ At(a, "check")
                    /\ \E ub \in FrontOutcomes : MtStep(a, callCheck(mt, a, ub))
CallWakeBy(a)    == /\ At(a, "wait")
                    /\ Lockable(mt, a, mt.agent[a].promiseHolder)
                    /\ \E ub \in FrontOutcomes : MtStep(a, callWake(mt, a, ub))
CallRunBy(a)     == At(a, "run") /\ MtStep(a, callRun(mt, a))
CallRelockBy(a)  == /\ At(a, "relock")
                    /\ Lockable(mt, a, mt.agent[a].promiseHolder)
                    /\ \E ub \in SpliceOutcomes : MtStep(a, callRelock(mt, a, ub))
CallJoinedBy(a)  == At(a, "joined") /\ MtStep(a, callJoined(mt, a))
CallSecondBy(a)  == /\ At(a, "stage2")
                    /\ Lockable(mt, a, mt.agent[a].promiseHolder)
                    /\ MtStep(a, callSecond(mt, a))

BeginThen        == \E a \in Agents : BeginThenBy(a)
BeginThenReturning == \E a \in Agents : BeginThenReturningBy(a)
BeginThenPromise == \E a \in Agents : BeginThenPromiseBy(a)
BeginResolve     == \E a \in Agents : BeginResolveBy(a)
ObtainLoad       == \E a \in Agents : ObtainLoadBy(a)
ObtainLock       == \E a \in Agents : ObtainLockBy(a)
ObtainTest       == \E a \in Agents : ObtainTestBy(a)
JoinStore        == \E a \in Agents : JoinStoreBy(a)
ThenPush         == \E a \in Agents : ThenPushBy(a)
ThenLock1        == \E a \in Agents : ThenLock1By(a)
ThenJoin         == \E a \in Agents : ThenJoinBy(a)
ThenFront        == \E a \in Agents : ThenFrontBy(a)
ResolveFront     == \E a \in Agents : ResolveFrontBy(a)
DeferMake        == \E a \in Agents : DeferMakeBy(a)
DeferMade        == \E a \in Agents : DeferMadeBy(a)
DeferResolved    == \E a \in Agents : DeferResolveBy(a)
CallRead         == \E a \in Agents : CallReadBy(a)
CallLock         == \E a \in Agents : CallLockBy(a)
CallCheck        == \E a \in Agents : CallCheckBy(a)
CallWake         == \E a \in Agents : CallWakeBy(a)
CallRun          == \E a \in Agents : CallRunBy(a)
CallRelock       == \E a \in Agents : CallRelockBy(a)
CallJoined       == \E a \in Agents : CallJoinedBy(a)
CallSecond       == \E a \in Agents : CallSecondBy(a)

InitThreads == \E P \in SUBSET Promises : StartWith(Fresh, Threads(P))

\* threads that call then(Promise) and resolve
NextLock ==
    \/ BeginThenPromise
    \/ BeginResolve
    \/ ObtainLoad
    \/ ObtainLock
    \/ ObtainTest
    \/ JoinStore
    \/ ThenLock1
    \/ ThenJoin
    \/ ThenFront
    \/ ResolveFront
    \/ DeferMake
    \/ DeferMade
    \/ DeferResolved
    \/ CallRead
    \/ CallLock
    \/ CallCheck
    \/ CallWake
    \/ CallSecond

SpecLock == InitThreads /\ [][NextLock]_vars

\* threads that call then(Promise) and then with a callable that returns a
\* Promise
NextOrder ==
    \/ BeginThenPromise
    \/ BeginThenReturning
    \/ ObtainLoad
    \/ ObtainLock
    \/ ObtainTest
    \/ JoinStore
    \/ ThenPush
    \/ ThenLock1
    \/ ThenJoin
    \/ ThenFront
    \/ CallRead
    \/ CallLock
    \/ CallCheck
    \/ CallWake
    \/ CallRun
    \/ CallRelock
    \/ CallJoined
    \/ CallSecond

SpecOrder == InitThreads /\ [][NextOrder]_vars

\* threads that call then with a callable that returns a value, and resolve
NextWait ==
    \/ BeginThen
    \/ BeginResolve
    \/ ObtainLoad
    \/ ObtainLock
    \/ ObtainTest
    \/ ThenPush
    \/ ResolveFront
    \/ DeferMake
    \/ DeferMade
    \/ DeferResolved
    \/ CallRead
    \/ CallLock
    \/ CallCheck
    \/ CallWake
    \/ CallRun
    \/ CallRelock
    \/ CallSecond

SpecWait == InitThreads /\ [][NextWait]_vars

\* an agent inside a call of the library keeps executing unless it is blocked;
\* nothing makes an agent begin a call, and nothing wakes an agent that waits
\* on the condition variable, which no code notifies
Executes(a) ==
    \/ ObtainLoadBy(a)
    \/ ObtainLockBy(a)
    \/ ObtainTestBy(a)
    \/ JoinStoreBy(a)
    \/ ThenPushBy(a)
    \/ ThenLock1By(a)
    \/ ThenJoinBy(a)
    \/ ThenFrontBy(a)
    \/ ResolveFrontBy(a)
    \/ DeferMakeBy(a)
    \/ DeferMadeBy(a)
    \/ DeferResolveBy(a)
    \/ CallReadBy(a)
    \/ CallLockBy(a)
    \/ CallCheckBy(a)
    \/ CallRunBy(a)
    \/ CallRelockBy(a)
    \/ CallJoinedBy(a)
    \/ CallSecondBy(a)

FairLock == SpecLock /\ \A a \in Agents : WF_vars(Executes(a))
FairWait == SpecWait /\ \A a \in Agents : WF_vars(Executes(a))

\* ------------------------------------------------ claims: multi-threading
InObtainLock(a) == mt.agent[a].pc \in {"obtainLock", "lock", "test"}

\* obtainLock has just returned mutex m to agent a: the agent holds m, and m
\* is the mutex of the holder the SharedPromise points at
ObtainLockReturnsCurrent ==
    \A a \in Agents :
        mt.agent[a].returned =>
            /\ mt.holders[mt.agent[a].mutex].by = a
            /\ TargetOf(mt, a, mt.agent[a].handle) = mt.agent[a].mutex

\* C28: obtainLock returns the mutex of the holder the SharedPromise points
\* at, held by the caller, and every agent that is in obtainLock leaves it
\* (the joins of the run are finitely many) unless the process has crashed.
ObtainLockReturns ==
    /\ []ObtainLockReturnsCurrent
    /\ \A a \in Agents : InObtainLock(a) ~> (~InObtainLock(a) \/ mt.crashed)

\* agent a is blocked in the lock() of a mutex that agent b holds
WaitsFor(a, b) ==
    /\ a # b
    /\ \/ /\ mt.agent[a].pc = "lock"
          /\ mt.holders[mt.agent[a].mutex].by = b
       \/ /\ mt.agent[a].pc \in {"stage1", "relock", "stage2"}
          /\ mt.holders[mt.agent[a].promiseHolder].by = b

\* agent a holds a mutex and is not executing: it is blocked in lock()
HoldsAndWaits(a, b) ==
    /\ WaitsFor(a, b)
    /\ \E h \in Promises : mt.holders[h].by = a

\* C29: no two agents wait for each other's holder locks.
NoCyclicWait ==
    \A a \in Agents, b \in Agents :
        ~(HoldsAndWaits(a, b) /\ HoldsAndWaits(b, a))

\* agent a waits on the condition variable of a settled holder
Waits(a) == mt.agent[a].pc = "wait"

\* no callable has run twice
RunOnce == \A t \in 1..Len(mt.tasks) : mt.tasks[t].runs =< 1

\* the task of an agent that has left the wait has been through call()
WaitedTaskDone(a) ==
    ~Waits(a) /\ (mt.agent[a].pc = "idle" =>
                    \A t \in 1..Len(mt.tasks) :
                        mt.tasks[t].onResolved_ = "empty"
                        \/ mt.tasks[t].state_ = kPending
                        \/ mt.tasks[t].runs = 1)

\* C30: an agent that waits on the condition variable leaves the wait, no
\* callable runs twice, and every call of then or resolve returns (unless
\* the process has crashed).
WaitEnds ==
    /\ \A a \in Agents : Waits(a) ~> (WaitedTaskDone(a) \/ mt.crashed)
    /\ []RunOnce
    /\ \A a \in Agents :
          (mt.agent[a].pc # "idle") ~> (mt.agent[a].pc = "idle" \/ mt.crashed)
====
